---- MODULE Spec2Model ----
(***************************************************************************)
(* ForgeAI: the SolidWorks connection manager (solidworks/connection.py),  *)
(* the operations layer (solidworks/operations.py) with the unit helpers   *)
(* (solidworks/models.py), the tools (mcp_tools/), the resources           *)
(* (mcp_resources/) and the server's lifespan (core/mcp_server.py).        *)
(*                                                                         *)
(* connect() and disconnect() are modelled statement by statement, one     *)
(* action per statement, so that two callers can interleave; the other     *)
(* methods of the manager and the operations are one action per call.      *)
(* Every call on the external application (a COM property read or method   *)
(* call) either succeeds or raises; the choice is the environment's.       *)
(***************************************************************************)
EXTENDS Integers, Sequences, FiniteSets, TLC

VARIABLES
    app,        \* SolidWorksConnection._app: NoApp (None), Handle, Deleted (after del)
    is_conn,    \* SolidWorksConnection._is_connected
    auto_launch,\* config.solidworks.auto_launch
    visible,    \* config.solidworks.visible
    cfg_timeout,\* config.solidworks.timeout
    pc,         \* per caller: the statement it is at, "idle" between calls
    op,         \* per caller: the public method it is (or was last) running
    ret,        \* per caller: what the last finished call returned
    tmo,        \* per caller: connect()'s local timeout
    elapsed,    \* per caller: time.time() - start_time in _launch_and_connect
    trace,      \* per caller: the calls made on the application by the running call,
                \* with markers for what it logs and for the functions it calls
    nok,        \* number of calls of check_connection in a row that returned True
    lost,       \* "lost": the last call was a check_connection whose probe raised;
                \* "retry": the connect() that followed it; "no" otherwise
    res,        \* per caller: the OperationResult of the operation that returned last,
                \* or the mapping of the tool or resource that did
    overlap,    \* some call was started while another caller's call was running
    doc_open,   \* the application has an active document
    sketch_active, \* the active document has an active sketch
    args,       \* per caller: the arguments of the operation that returned last
                \* (for fillet and chamfer also the solid bodies of the document)
    sent        \* per caller: the arguments that operation gave to the calls it
                \* made on the application, for the calls that are given a path,
                \* a plane name, a length or a coordinate

vars == <<app, is_conn, auto_launch, visible, cfg_timeout,
          pc, op, ret, tmo, elapsed, trace, nok, lost, overlap, res,
          doc_open, sketch_active, args, sent>>

conf == <<auto_launch, visible, cfg_timeout>>
hist == <<nok, lost, overlap, res, args, sent>>
appstate == <<doc_open, sketch_active>>

(***************************************************************************)
(* Bounds of the model.                                                    *)
(***************************************************************************)
\* timeouts range over 0..MaxTimeout seconds
MaxTimeout == 2
\* time.sleep(1) takes 1..MaxNap seconds
MaxNap == 2
\* calls of check_connection counted in a row
MaxChecks == 2
\* solid bodies of the document, and edges of one body
MaxBodies == 2
MaxEdges == 2
\* values given to mm_to_m: the halves of the integers up to MaxMillimetres
MaxMillimetres == 26

Callers == {"main", "other"}

NoApp == "None"
Handle == "handle"
Deleted == "deleted"

\* One call on the application (or a marker), with the source line that makes it.
Ev(call, line, ok) == [call |-> call, line |-> line, ok |-> ok]

Log(c, call, line, ok) == trace' = [trace EXCEPT ![c] = Append(@, Ev(call, line, ok))]

\* self._app.<attr> read or written at `line`: without a handle in self._app the
\* access raises AttributeError and the application is not reached.
Access(c, call, line, ok) ==
    Log(c, IF app = Handle THEN call ELSE "AttributeError", line, app = Handle /\ ok)

\* Whether that access succeeds: with a handle the application decides.
Responds(ok) == app = Handle /\ ok

\* SolidWorksConnection.is_connected
IsConnected == is_conn /\ app # NoApp

Goto(c, label) == pc' = [pc EXCEPT ![c] = label]

\* A public method returns value v to its caller ("raise": an exception leaves it).
Return(c, v) ==
    /\ pc' = [pc EXCEPT ![c] = "idle"]
    /\ ret' = [ret EXCEPT ![c] = v]

\* OperationResult (models.py): message is the text with the exception text
\* substituted for {e}, if any; feature_name and data are <<>> when unset (None).
OperationResult(s, m, f, d) ==
    [success |-> s, message |-> m, feature_name |-> f, data |-> d]

\* The result slot of a caller that has no operation result.
NoResult == OperationResult(FALSE, [text |-> "", e |-> <<>>], <<>>, <<>>)

\* The arguments slot of a caller whose call has no arguments on record.
NoArgs == [none |-> TRUE]

\* Caller c starts a call while another caller is inside one.
Overlaps(c) == \E d \in Callers \ {c} : pc[d] # "idle"

\* A caller starts public method o: the record of the previous call is dropped.
\* A connect() that directly follows a check_connection() whose probe raised is
\* marked as the retry; any other call ends the run of successful checks.
Begin(c, o) ==
    /\ pc[c] = "idle"
    /\ op' = [op EXCEPT ![c] = o]
    /\ ret' = [ret EXCEPT ![c] = "-"]
    /\ trace' = [trace EXCEPT ![c] = <<>>]
    /\ overlap' = (overlap \/ Overlaps(c))
    /\ res' = [res EXCEPT ![c] = NoResult]
    /\ args' = [args EXCEPT ![c] = NoArgs]
    /\ sent' = [sent EXCEPT ![c] = <<>>]
    /\ IF lost = "lost" /\ o = "connect"
         THEN lost' = "retry" /\ nok' = nok
         ELSE lost' = "no" /\ nok' = 0

Init ==
    /\ app = NoApp
    /\ is_conn = FALSE
    /\ auto_launch \in BOOLEAN
    /\ visible \in BOOLEAN
    /\ cfg_timeout \in 1..MaxTimeout
    /\ pc = [c \in Callers |-> "idle"]
    /\ op = [c \in Callers |-> "-"]
    /\ ret = [c \in Callers |-> "-"]
    /\ tmo = [c \in Callers |-> 0]
    /\ elapsed = [c \in Callers |-> 0]
    /\ trace = [c \in Callers |-> <<>>]
    /\ nok = 0
    /\ lost = "no"
    /\ overlap = FALSE
    /\ res = [c \in Callers |-> NoResult]
    /\ args = [c \in Callers |-> NoArgs]
    /\ sent = [c \in Callers |-> <<>>]
    /\ doc_open = FALSE
    /\ sketch_active = FALSE

(***************************************************************************)
(* SolidWorksConnection.connect, statement by statement.                   *)
(***************************************************************************)

\* (fault) create_new_document() goes on whatever connect() returned
ConnectReturnsIgnored(c, v) ==
    IF op[c] \in {"create_new_document", "create_new_part"}
      THEN Goto(c, "nd_body") /\ ret' = ret
    ELSE IF op[c] = "lifespan"
      THEN Goto(c, IF v = "True" THEN "ls_connected" ELSE "ls_warning") /\ ret' = ret
      ELSE Return(c, v)

\* connect() returns v to whoever called it: create_new_document(), which goes
\* on when it is True and gives up when it is False, the server's lifespan,
\* which logs the one or the other, or the caller.
ConnectReturns(c, v) ==
    IF op[c] \in {"create_new_document", "create_new_part"}
      THEN Goto(c, IF v = "True" THEN "nd_body" ELSE "nd_refused") /\ ret' = ret
    ELSE IF op[c] = "lifespan"
      THEN Goto(c, IF v = "True" THEN "ls_connected" ELSE "ls_warning") /\ ret' = ret
      ELSE Return(c, v)

\* connect() raises: in the server's lifespan the finally block runs, any
\* other caller gets the exception.
ConnectRaises(c) ==
    IF op[c] = "lifespan"
      THEN Goto(c, "d_test") /\ ret' = ret
      ELSE Return(c, "raise")

\* connect(timeout) is called; t = 0 stands for timeout=None.
StartConnect(c) ==
    \E t \in 0..MaxTimeout :
        /\ Begin(c, "connect")
        /\ Goto(c, "c_check")
        /\ tmo' = [tmo EXCEPT ![c] = t]
        /\ UNCHANGED <<app, is_conn, conf, elapsed, appstate>>

\* (fault) connect() goes on to adopt an instance although it is connected
NeverAlreadyConnected == FALSE

\* if self.is_connected: (connect() returns True at once)
AlreadyConnected == IsConnected

\* if self.is_connected: return True; timeout = timeout or config timeout
ConnectCheck(c) ==
    /\ pc[c] = "c_check"
    /\ IF is_conn /\ app = Deleted
         THEN /\ Log(c, "AttributeError", 54, FALSE)
              /\ ConnectRaises(c)
              /\ tmo' = tmo
         ELSE IF AlreadyConnected
         THEN /\ Log(c, "already", 55, TRUE)
              /\ ConnectReturns(c, "True")
              /\ tmo' = tmo
         ELSE /\ Log(c, "connect", 58, TRUE)
              /\ tmo' = [tmo EXCEPT ![c] = IF @ # 0 THEN @ ELSE cfg_timeout]
              /\ Goto(c, "adopt_dispatch")
              /\ ret' = ret
    /\ UNCHANGED <<app, is_conn, conf, hist, appstate, op, elapsed>>

\* self._app = win32com.client.Dispatch("SldWorks.Application")
AdoptDispatch(c) ==
    /\ pc[c] = "adopt_dispatch"
    /\ \E ok \in BOOLEAN :
        /\ Log(c, "Dispatch", 81, ok)
        /\ app' = IF ok THEN Handle ELSE app
        /\ Goto(c, IF ok THEN "adopt_probe" ELSE "adopt_except")
    /\ UNCHANGED <<is_conn, conf, hist, appstate, op, ret, tmo, elapsed>>

\* _ = self._app.RevisionNumber
AdoptProbe(c) ==
    /\ pc[c] = "adopt_probe"
    /\ \E ok \in BOOLEAN :
        /\ Access(c, "RevisionNumber", 84, ok)
        /\ Goto(c, IF Responds(ok) THEN "adopt_set" ELSE "adopt_except")
    /\ UNCHANGED <<app, is_conn, conf, hist, appstate, op, ret, tmo, elapsed>>

\* self._is_connected = True
AdoptSet(c) ==
    /\ pc[c] = "adopt_set"
    /\ is_conn' = TRUE
    /\ Goto(c, "adopt_version")
    /\ UNCHANGED <<app, conf, hist, appstate, op, ret, tmo, elapsed, trace>>

\* version = self._app.RevisionNumber; return True
AdoptVersion(c) ==
    /\ pc[c] = "adopt_version"
    /\ \E ok \in BOOLEAN :
        /\ Access(c, "RevisionNumber", 87, ok)
        /\ IF Responds(ok)
             THEN ConnectReturns(c, "True")
             ELSE Goto(c, "adopt_except") /\ ret' = ret
    /\ UNCHANGED <<app, is_conn, conf, hist, appstate, op, tmo, elapsed>>

\* except Exception: self._app = None
AdoptExcept(c) ==
    /\ pc[c] = "adopt_except"
    /\ app' = NoApp
    /\ Goto(c, "adopt_failed")
    /\ UNCHANGED <<is_conn, conf, hist, appstate, op, ret, tmo, elapsed, trace>>

\* (fault) the handler of _connect_to_running() leaves the flag as it was
FlagKeptAfterFailedAdopt(flag) == flag

\* What the handler of _connect_to_running() leaves in _is_connected.
FlagAfterFailedAdopt(flag) == FALSE

\* self._is_connected = False; return False; back in connect():
\* if auto_launch: return self._launch_and_connect(timeout), else return False
AdoptFailed(c) ==
    /\ pc[c] = "adopt_failed"
    /\ is_conn' = FlagAfterFailedAdopt(is_conn)
    /\ IF auto_launch
         THEN Goto(c, "launch_dispatch") /\ ret' = ret
         ELSE ConnectReturns(c, "False")
    /\ UNCHANGED <<app, conf, hist, appstate, op, tmo, elapsed, trace>>

\* self._app = win32com.client.Dispatch("SldWorks.Application")
LaunchDispatch(c) ==
    /\ pc[c] = "launch_dispatch"
    /\ \E ok \in BOOLEAN :
        /\ Log(c, "Dispatch", 110, ok)
        /\ app' = IF ok THEN Handle ELSE app
        /\ Goto(c, IF ok THEN "launch_start" ELSE "launch_except")
    /\ UNCHANGED <<is_conn, conf, hist, appstate, op, ret, tmo, elapsed>>

\* start_time = time.time()
LaunchStart(c) ==
    /\ pc[c] = "launch_start"
    /\ elapsed' = [elapsed EXCEPT ![c] = 0]
    /\ Goto(c, "loop_test")
    /\ UNCHANGED <<app, is_conn, conf, hist, appstate, op, ret, tmo, trace>>

\* (fault) the loop's condition ignores the timeout
StillWaitingForever(e, t) == TRUE

\* The loop's condition: time.time() - start_time < timeout
StillWaiting(e, t) == e < t

\* while time.time() - start_time < timeout:
LoopTest(c) ==
    /\ pc[c] = "loop_test"
    /\ Goto(c, IF StillWaiting(elapsed[c], tmo[c]) THEN "loop_probe" ELSE "timed_out")
    /\ UNCHANGED <<app, is_conn, conf, hist, appstate, op, ret, tmo, elapsed, trace>>

\* version = self._app.RevisionNumber; if self._config.solidworks.visible:
LoopProbe(c) ==
    /\ pc[c] = "loop_probe"
    /\ \E ok \in BOOLEAN :
        /\ Access(c, "RevisionNumber", 118, ok)
        /\ Goto(c, IF ~Responds(ok) THEN "loop_sleep"
                   ELSE IF visible THEN "loop_visible" ELSE "loop_frame")
    /\ UNCHANGED <<app, is_conn, conf, hist, appstate, op, ret, tmo, elapsed>>

\* Where an exception raised by self._app.Visible = True is handled: by the
\* loop's own handler (line 134), which sleeps and polls again.
VisibleFailed == "loop_sleep"

\* self._app.Visible = True
LoopVisible(c) ==
    /\ pc[c] = "loop_visible"
    /\ \E ok \in BOOLEAN :
        /\ Access(c, "Visible", 122, ok)
        /\ Goto(c, IF Responds(ok) THEN "loop_frame" ELSE VisibleFailed)
    /\ UNCHANGED <<app, is_conn, conf, hist, appstate, op, ret, tmo, elapsed>>

\* try: self._app.FrameState = 0; except Exception: (logged)
LoopFrame(c) ==
    /\ pc[c] = "loop_frame"
    /\ \E ok \in BOOLEAN : Access(c, "FrameState", 127, ok)
    /\ Goto(c, "loop_set")
    /\ UNCHANGED <<app, is_conn, conf, hist, appstate, op, ret, tmo, elapsed>>

\* self._is_connected = True; return True
LoopSet(c) ==
    /\ pc[c] = "loop_set"
    /\ is_conn' = TRUE
    /\ ConnectReturns(c, "True")
    /\ UNCHANGED <<app, conf, hist, appstate, op, tmo, elapsed, trace>>

\* How long time.sleep(1) may take: at least the second asked for.
Naps == 1..MaxNap

\* except Exception: time.sleep(1)
LoopSleep(c) ==
    /\ pc[c] = "loop_sleep"
    /\ \E d \in Naps : elapsed' = [elapsed EXCEPT ![c] = @ + d]
    /\ Log(c, "sleep", 136, TRUE)
    /\ Goto(c, "loop_test")
    /\ UNCHANGED <<app, is_conn, conf, hist, appstate, op, ret, tmo>>

\* (fault) the timeout exit keeps the handle of the instance that never answered
HandleKeptAfterTimeout(h) == h

\* What the timeout exit leaves in _app.
HandleAfterTimeout(h) == NoApp

\* (timed out) self._app = None; return False
TimedOut(c) ==
    /\ pc[c] = "timed_out"
    /\ app' = HandleAfterTimeout(app)
    /\ ConnectReturns(c, "False")
    /\ UNCHANGED <<is_conn, conf, hist, appstate, op, tmo, elapsed, trace>>

\* except Exception (the launch itself raised): self._app = None
LaunchExcept(c) ==
    /\ pc[c] = "launch_except"
    /\ app' = NoApp
    /\ Goto(c, "launch_failed")
    /\ UNCHANGED <<is_conn, conf, hist, appstate, op, ret, tmo, elapsed, trace>>

\* self._is_connected = False; return False
LaunchFailed(c) ==
    /\ pc[c] = "launch_failed"
    /\ is_conn' = FALSE
    /\ ConnectReturns(c, "False")
    /\ UNCHANGED <<app, conf, hist, appstate, op, tmo, elapsed, trace>>

ConnectStep(c) ==
    \/ ConnectCheck(c) \/ AdoptDispatch(c) \/ AdoptProbe(c) \/ AdoptSet(c)
    \/ AdoptVersion(c) \/ AdoptExcept(c) \/ AdoptFailed(c)
    \/ LaunchDispatch(c) \/ LaunchStart(c) \/ LoopTest(c) \/ LoopProbe(c)
    \/ LoopVisible(c) \/ LoopFrame(c) \/ LoopSet(c) \/ LoopSleep(c)
    \/ TimedOut(c) \/ LaunchExcept(c) \/ LaunchFailed(c)

(***************************************************************************)
(* SolidWorksConnection.disconnect and reconnect, statement by statement.  *)
(***************************************************************************)

\* Where reconnect() goes once its disconnect() has returned: into connect().
AfterDisconnect == "c_check"

\* An exception is on its way out of the server's lifespan: connect() raised,
\* or the body of the lifespan did.
Pending(t) ==
    \E i \in DOMAIN t : t[i] \in {Ev("AttributeError", 54, FALSE), Ev("body", 65, FALSE)}

\* disconnect() returns: to reconnect(), which goes on to connect(timeout), or
\* to the caller.
DisconnectReturns(c) ==
    IF op[c] = "reconnect"
      THEN Goto(c, AfterDisconnect) /\ ret' = ret
    ELSE IF op[c] = "lifespan"
      THEN Return(c, IF Pending(trace[c]) THEN "raise" ELSE "None")
      ELSE Return(c, "None")

StartDisconnect(c) ==
    /\ Begin(c, "disconnect")
    /\ Goto(c, "d_test")
    /\ UNCHANGED <<app, is_conn, conf, tmo, elapsed, appstate>>

\* (fault) reconnect() goes straight to connect()
ReconnectSkipsDisconnect == "c_check"

\* The first statement of reconnect(): the call of self.disconnect().
ReconnectEntry == "d_test"

\* reconnect(timeout): self.disconnect(); return self.connect(timeout)
StartReconnect(c) ==
    \E t \in 0..MaxTimeout :
        /\ Begin(c, "reconnect")
        /\ Goto(c, ReconnectEntry)
        /\ tmo' = [tmo EXCEPT ![c] = t]
        /\ UNCHANGED <<app, is_conn, conf, elapsed, appstate>>

\* if self._app is not None:
DiscTest(c) ==
    /\ pc[c] = "d_test"
    /\ IF app = Deleted
         THEN Log(c, "AttributeError", 154, FALSE) /\ Return(c, "raise")
         ELSE /\ Log(c, "disconnect", 154, TRUE)
              /\ IF app = NoApp
                   THEN DisconnectReturns(c)
                   ELSE Goto(c, "d_del") /\ ret' = ret
    /\ UNCHANGED <<app, is_conn, conf, hist, appstate, op, tmo, elapsed>>

\* del self._app (an AttributeError here is caught and logged)
DiscDel(c) ==
    /\ pc[c] = "d_del"
    /\ IF app = Deleted
         THEN app' = app /\ trace' = trace /\ DisconnectReturns(c)
         ELSE /\ app' = Deleted
              /\ Log(c, "del", 157, TRUE)
              /\ Goto(c, "d_none") /\ ret' = ret
    /\ UNCHANGED <<is_conn, conf, hist, appstate, op, tmo, elapsed>>

\* self._app = None
DiscNone(c) ==
    /\ pc[c] = "d_none"
    /\ app' = NoApp
    /\ Goto(c, "d_flag")
    /\ UNCHANGED <<is_conn, conf, hist, appstate, op, ret, tmo, elapsed, trace>>

\* (fault) disconnect() releases the handle and leaves the flag as it was
FlagKeptAfterDisconnect(flag) == flag

\* What disconnect() leaves in _is_connected.
FlagAfterDisconnect(flag) == FALSE

\* self._is_connected = False
DiscFlag(c) ==
    /\ pc[c] = "d_flag"
    /\ is_conn' = FlagAfterDisconnect(is_conn)
    /\ DisconnectReturns(c)
    /\ UNCHANGED <<app, conf, hist, appstate, op, tmo, elapsed, trace>>

DisconnectStep(c) == DiscTest(c) \/ DiscDel(c) \/ DiscNone(c) \/ DiscFlag(c)

(***************************************************************************)
(* The manager's other methods, one action per call.                       *)
(***************************************************************************)

\* One whole call of method o by an idle caller: it returns r, having made the
\* application calls tr.
Call(c, o, r, tr) ==
    /\ pc[c] = "idle"
    /\ pc' = pc
    /\ op' = [op EXCEPT ![c] = o]
    /\ ret' = [ret EXCEPT ![c] = r]
    /\ trace' = [trace EXCEPT ![c] = tr]
    /\ overlap' = (overlap \/ Overlaps(c))
    /\ res' = [res EXCEPT ![c] = NoResult]
    /\ args' = [args EXCEPT ![c] = NoArgs]
    /\ sent' = [sent EXCEPT ![c] = <<>>]

\* (fault) check_connection() forgets to lower the flag
FlagKeptAfterFailedCheck == TRUE

\* What check_connection() leaves in _is_connected when its probe raises.
FlagAfterFailedCheck == FALSE

\* The successful checks that directly precede this call.
ChecksBefore == IF lost = "no" THEN nok ELSE 0

\* check_connection()
CheckConnection(c) ==
    /\ IF ~is_conn \/ app = NoApp
         THEN /\ Call(c, "check_connection", "False", <<>>)
              /\ is_conn' = is_conn
              /\ nok' = 0 /\ lost' = "no"
         ELSE \E ok \in BOOLEAN :
              /\ ok => ChecksBefore < MaxChecks
              /\ Call(c, "check_connection", IF ok THEN "True" ELSE "False",
                      <<Ev("RevisionNumber", 192, ok)>>)
              /\ is_conn' = IF ok THEN is_conn ELSE FlagAfterFailedCheck
              /\ nok' = IF ok THEN ChecksBefore + 1 ELSE ChecksBefore
              /\ lost' = IF ok THEN "no" ELSE "lost"
    /\ UNCHANGED <<app, conf, appstate, tmo, elapsed>>

\* (fault) a failed read lowers the flag, as check_connection() does
FlagLoweredAfterFailedRead(flag) == FALSE

\* What get_version() and get_active_doc() leave in _is_connected when the
\* application call raises: what was there.
FlagAfterFailedRead(flag) == flag

\* get_version()
GetVersion(c) ==
    /\ IF ~IsConnected
         THEN /\ Call(c, "get_version", "None", <<>>)
              /\ is_conn' = is_conn
         ELSE \E ok \in BOOLEAN :
              /\ Call(c, "get_version", IF ok THEN "version" ELSE "None",
                      <<Ev("RevisionNumber", 227, ok)>>)
              /\ is_conn' = IF ok THEN is_conn ELSE FlagAfterFailedRead(is_conn)
    /\ nok' = 0 /\ lost' = "no"
    /\ UNCHANGED <<app, conf, appstate, tmo, elapsed>>

\* get_active_doc()
GetActiveDoc(c) ==
    /\ IF ~IsConnected
         THEN /\ Call(c, "get_active_doc", "None", <<>>)
              /\ is_conn' = is_conn
         ELSE \E ok \in BOOLEAN :
              /\ Call(c, "get_active_doc", IF ok /\ doc_open THEN "doc" ELSE "None",
                      <<Ev("ActiveDoc", 210, ok)>>)
              /\ is_conn' = IF ok THEN is_conn ELSE FlagAfterFailedRead(is_conn)
    /\ nok' = 0 /\ lost' = "no"
    /\ UNCHANGED <<app, conf, appstate, tmo, elapsed>>

\* the is_connected property, read by a caller
ReadIsConnected(c) ==
    /\ Call(c, "is_connected", IF IsConnected THEN "True" ELSE "False", <<>>)
    /\ nok' = 0 /\ lost' = "no"
    /\ UNCHANGED <<app, is_conn, conf, appstate, tmo, elapsed>>

(***************************************************************************)
(* One caller, one call at a time.                                         *)
(***************************************************************************)
Next ==
    \/ StartConnect("main")
    \/ ConnectStep("main")
    \/ StartDisconnect("main")
    \/ StartReconnect("main")
    \/ DisconnectStep("main")
    \/ CheckConnection("main")
    \/ GetVersion("main")
    \/ GetActiveDoc("main")
    \/ ReadIsConnected("main")

Spec == Init /\ [][Next]_vars

(***************************************************************************)
(* The connection manager alone, with the caller's thread scheduled: once  *)
(* connect() is called its statements are executed, every call is          *)
(* synchronous.                                                            *)
(***************************************************************************)
NextConnection ==
    \/ StartConnect("main")
    \/ ConnectStep("main")
    \/ StartDisconnect("main")
    \/ DisconnectStep("main")
    \/ CheckConnection("main")

FairSpec == Init /\ [][NextConnection]_vars /\ WF_vars(ConnectStep("main"))

(***************************************************************************)
(* The operations layer (solidworks/operations.py). An operation is one    *)
(* action; what it can do in the current state is the set of its runs: the *)
(* OperationResult it returns, the calls it made on the application and    *)
(* the application's document state afterwards. A call on the application  *)
(* returns or raises, and what it returns may be null (None, empty, False).*)
(***************************************************************************)

\* A message without exception text, and one whose {e} is the text of x.
Msg(text) == [text |-> text, e |-> <<>>]
MsgE(text, x) == [text |-> text, e |-> <<x>>]

\* The text of the exception raised by `call` at source line `line`.
Exc(call, line) == [call |-> call, line |-> line]

\* (fault) a failure that still names a feature
FailureNamed(m) == OperationResult(FALSE, m, <<"Feature1">>, <<>>)

\* OperationResult(success=False, message=m)
Failure(m) == OperationResult(FALSE, m, <<>>, <<>>)

\* A run that leaves the application's document state as it is.
Run(r, tr) == [result |-> r, trace |-> tr, doc |-> doc_open, sketch |-> sketch_active]

\* A run that leaves the sketch state s.
RunSketch(r, tr, s) == [result |-> r, trace |-> tr, doc |-> doc_open, sketch |-> s]

\* The runs `runs`, made after the calls tr.
After(tr, runs) == {[r EXCEPT !.trace = tr \o @] : r \in runs}

\* A statement is <<call, line>>. The calls made when statements 1..k of st
\* are executed in order and, if `raised`, the k-th raises.
Calls(st, k, raised) ==
    [i \in 1..k |-> Ev(st[i][1], st[i][2], ~(raised /\ i = k))]

\* All of st executed, none raised.
Done(st) == Calls(st, Len(st), FALSE)

\* (fault) the handler reports the failure without the exception's text
CaughtSilently(text, st) ==
    {Run(Failure(Msg(text)), Calls(st, k, TRUE)) : k \in 1..Len(st)}

\* except Exception as e: return OperationResult(success=False, message=f"{text}{e}")
\* for each statement of st that can raise.
Caught(text, st) ==
    {Run(Failure(MsgE(text, Exc(st[k][1], st[k][2]))), Calls(st, k, TRUE)) :
        k \in 1..Len(st)}

\* _get_active_doc(): (doc, error). conn.get_active_doc() returns None when
\* the ActiveDoc read raises.
ActiveDocOrError ==
    IF ~IsConnected
      THEN {[doc |-> FALSE, trace |-> <<>>,
             error |-> Msg("Not connected to SolidWorks. Please connect first.")]}
      ELSE {[doc |-> ok /\ doc_open, trace |-> <<Ev("ActiveDoc", 210, ok)>>,
             error |-> Msg("No document is open. Use create_new_part() to create a new part first.")] :
               ok \in BOOLEAN}

\* _get_active_sketch(doc): (sketch, error)
ActiveSketchOrError ==
    LET st == << <<"SketchManager", 91>>, <<"ActiveSketch", 92>> >> IN
    {[sketch |-> FALSE, trace |-> Calls(st, k, TRUE),
      error |-> MsgE("Failed to get active sketch: {e}", Exc(st[k][1], st[k][2]))] :
        k \in 1..2}
    \cup
    {[sketch |-> sketch_active, trace |-> Done(st),
      error |-> Msg("No active sketch. Use create_sketch() to start a new sketch first.")]}

\* _rebuild_model(doc): the calls it makes; an exception is logged and dropped.
RebuildModel == {<<Ev("EditRebuild3", 107, ok)>> : ok \in BOOLEAN}

\* (fault) get_model_state() without a document returns no data
NoModelStateWithoutData(m) == OperationResult(FALSE, m, <<>>, <<>>)

\* get_model_state() without a document:
\* OperationResult(success=False, message=error, data={"model_state": None})
NoModelState(m) == OperationResult(FALSE, m, <<>>, <<[model_state |-> "None"]>>)

\* doc, error = _get_active_doc(); if doc is None: return
\* OperationResult(success=False, message=error), which get_model_state()
\* (model_state = TRUE) returns with its data; otherwise the operation goes on
\* as one of `runs`.
WithDoc(model_state, runs) ==
    UNION {IF d.doc THEN After(d.trace, runs)
           ELSE {Run(IF model_state THEN NoModelState(d.error) ELSE Failure(d.error),
                     d.trace)} :
              d \in ActiveDocOrError}

\* ... followed by sketch, error = _get_active_sketch(doc); if sketch is None:
\* return OperationResult(success=False, message=error)
WithSketch(runs) ==
    WithDoc(FALSE,
        UNION {IF s.sketch THEN After(s.trace, runs)
                           ELSE {Run(Failure(s.error), s.trace)} :
                  s \in ActiveSketchOrError})

(***************************************************************************)
(* Python floats (IEEE 754 binary64). A natural number is the sequence of  *)
(* its digits in base Base, least significant first, without leading zero  *)
(* digits; a float is sign, odd mantissa and exponent: the number          *)
(* (-1)^neg * man * 2^exp, zero being the empty mantissa. Results are      *)
(* rounded to 53 bits, ties to even. The exponent range is not modelled:   *)
(* the lengths of a part are far from overflow and underflow, and so is    *)
(* the sign of zero.                                                       *)
(***************************************************************************)
Base == 16384
DigitBits == 14
Precision == 53

\* n without its leading zero digits
RECURSIVE Trimmed(_)
Trimmed(n) ==
    IF n # <<>> /\ n[Len(n)] = 0 THEN Trimmed(SubSeq(n, 1, Len(n) - 1)) ELSE n

\* the digits of the integer k >= 0
RECURSIVE Digits(_)
Digits(k) == IF k = 0 THEN <<>> ELSE <<k % Base>> \o Digits(k \div Base)

\* a + b + carry
RECURSIVE AddDigits(_, _, _)
AddDigits(a, b, carry) ==
    IF a = <<>> /\ b = <<>> THEN (IF carry = 0 THEN <<>> ELSE <<carry>>)
    ELSE LET x == IF a = <<>> THEN 0 ELSE Head(a)
             y == IF b = <<>> THEN 0 ELSE Head(b)
             sum == x + y + carry
         IN <<sum % Base>>
            \o AddDigits(IF a = <<>> THEN a ELSE Tail(a), IF b = <<>> THEN b ELSE Tail(b),
                         sum \div Base)

\* a - b - borrow, for a >= b + borrow
RECURSIVE SubDigits(_, _, _)
SubDigits(a, b, borrow) ==
    IF a = <<>> THEN <<>>
    ELSE LET y == IF b = <<>> THEN 0 ELSE Head(b)
             diff == Head(a) - y - borrow
         IN <<diff % Base>>
            \o SubDigits(Tail(a), IF b = <<>> THEN b ELSE Tail(b),
                         IF diff < 0 THEN 1 ELSE 0)

\* a < b, both without leading zeros
RECURSIVE LessDigits(_, _)
LessDigits(a, b) ==
    IF Len(a) # Len(b) THEN Len(a) < Len(b)
    ELSE IF a = <<>> THEN FALSE
    ELSE IF a[Len(a)] # b[Len(b)] THEN a[Len(a)] < b[Len(b)]
    ELSE LessDigits(Trimmed(SubSeq(a, 1, Len(a) - 1)), Trimmed(SubSeq(b, 1, Len(b) - 1)))

\* a * d + carry, for a digit d
RECURSIVE TimesDigit(_, _, _)
TimesDigit(a, d, carry) ==
    IF a = <<>> THEN (IF carry = 0 THEN <<>> ELSE <<carry>>)
    ELSE LET p == Head(a) * d + carry IN
         <<p % Base>> \o TimesDigit(Tail(a), d, p \div Base)

\* a * b
RECURSIVE TimesDigits(_, _)
TimesDigits(a, b) ==
    IF a = <<>> \/ b = <<>> THEN <<>>
    ELSE Trimmed(AddDigits(TimesDigit(a, Head(b), 0),
                           IF Tail(b) = <<>> THEN <<>> ELSE <<0>> \o TimesDigits(a, Tail(b)),
                           0))

\* the number of bits of the integer k >= 0
RECURSIVE Bits(_)
Bits(k) == IF k = 0 THEN 0 ELSE 1 + Bits(k \div 2)

\* the number of bits of n
BitLength(n) == IF n = <<>> THEN 0 ELSE DigitBits * (Len(n) - 1) + Bits(n[Len(n)])

\* n * 2^k
ShiftLeft(n, k) ==
    IF n = <<>> THEN n
    ELSE [i \in 1..(k \div DigitBits) |-> 0] \o TimesDigit(n, 2^(k % DigitBits), 0)

\* n \div 2^k
ShiftRight(n, k) ==
    LET whole == IF k \div DigitBits >= Len(n) THEN <<>>
                 ELSE SubSeq(n, k \div DigitBits + 1, Len(n))
        r == k % DigitBits
    IN Trimmed([i \in 1..Len(whole) |->
                   (whole[i] \div 2^r)
                   + (IF i < Len(whole) THEN (whole[i + 1] % 2^r) * 2^(DigitBits - r) ELSE 0)])

\* the number of zero bits at the low end of n # 0
RECURSIVE TrailingZeros(_)
TrailingZeros(n) ==
    IF Head(n) = 0 THEN DigitBits + TrailingZeros(Tail(n))
    ELSE CHOOSE z \in 0..(DigitBits - 1) : Head(n) % 2^z = 0 /\ Head(n) % 2^(z + 1) # 0

\* The float (-1)^neg * man * 2^exp, for a mantissa of at most 53 bits.
Float(neg, man, exp) ==
    IF man = <<>> THEN [neg |-> FALSE, man |-> <<>>, exp |-> 0]
    ELSE LET z == TrailingZeros(man) IN
         [neg |-> neg, man |-> ShiftRight(man, z), exp |-> exp + z]

\* The float nearest to (-1)^neg * man * 2^exp, ties to even.
Rounded(neg, man, exp) ==
    LET k == BitLength(man) - Precision
        kept == ShiftRight(man, k)
        rest == Trimmed(SubDigits(man, ShiftLeft(kept, k), 0))
        half == ShiftLeft(<<1>>, k - 1)
        up == LessDigits(half, rest) \/ (rest = half /\ Head(kept) % 2 = 1)
    IN IF k <= 0 THEN Float(neg, man, exp)
       ELSE Float(neg, IF up THEN Trimmed(AddDigits(kept, <<>>, 1)) ELSE kept, exp + k)

\* float(k) of an int k
FloatOf(k) == Float(k < 0, Digits(IF k < 0 THEN -k ELSE k), 0)

\* x * y
Times(x, y) == Rounded(x.neg # y.neg, TimesDigits(x.man, y.man), x.exp + y.exp)

\* -x
Negated(x) == IF x.man = <<>> THEN x ELSE [x EXCEPT !.neg = ~@]

\* x + y
Plus(x, y) ==
    LET e == IF x.exp < y.exp THEN x.exp ELSE y.exp
        a == ShiftLeft(x.man, x.exp - e)
        b == ShiftLeft(y.man, y.exp - e)
    IN IF x.man = <<>> THEN y
       ELSE IF y.man = <<>> THEN x
       ELSE IF x.neg = y.neg THEN Rounded(x.neg, Trimmed(AddDigits(a, b, 0)), e)
       ELSE IF LessDigits(a, b) THEN Rounded(y.neg, Trimmed(SubDigits(b, a, 0)), e)
       ELSE Rounded(x.neg, Trimmed(SubDigits(a, b, 0)), e)

\* x - y
Minus(x, y) == Plus(x, Negated(y))

\* x / 2
Halved(x) == IF x.man = <<>> THEN x ELSE [x EXCEPT !.exp = @ - 1]

\* MM_TO_M = 0.001 and M_TO_MM = 1000.0
MM_TO_M == [neg |-> FALSE, man |-> <<10879, 4849, 2359, 262>>, exp |-> -60]
M_TO_MM == [neg |-> FALSE, man |-> <<125>>, exp |-> 3]

\* (fault) the millimetre value is forwarded as it is
mm_to_m_skipped(value) == value

\* mm_to_m(value): value * MM_TO_M
mm_to_m(value) == Times(value, MM_TO_M)

\* m_to_mm(value): value * M_TO_MM
m_to_mm(value) == Times(value, M_TO_MM)

\* math.cos(math.pi / 2) = 6.123233995736766e-17 and math.sin(math.pi / 2) = 1.0
CosHalfPi == [neg |-> FALSE, man |-> <<7175, 3153, 8803, 1129>>, exp |-> -106]
SinHalfPi == [neg |-> FALSE, man |-> <<1>>, exp |-> 0]

\* The inputs of the operations.
Lengths == {-5, 0, 10}
\* (center_x, center_y)
Centres == {<<0, 0>>, <<9, -5>>}
\* (x1, y1, x2, y2) of draw_line
Segments == {<<0, 0, 9, -5>>, <<-5, 9, 13, 13>>}
\* (center_x, center_y, start_x, start_y, end_x, end_y) of draw_arc
Arcs == {<<0, 0, 9, 0, 0, 9>>, <<9, -5, 13, -5, 9, -9>>}
\* the point lists of draw_spline, of the lengths PointCounts
SplinePoints ==
    {<<>>, << <<9, -5>> >>, << <<0, 0>>, <<9, 13>> >>,
     << <<0, 0>>, <<9, 13>>, <<18, -5>>, <<26, 0>> >>}
SideCounts == {2, 3, 6}
PointCounts == {0, 1, 2, 4}
Planes == {"Front Plane", "Top Plane", "Right Plane"}
Operations == {"boss", "cut", "drill"}
Directions == {"forward", "backward", "both", "up"}

\* A path is the sequence of its characters.
Extension == <<".", "S", "L", "D", "P", "R", "T">>
Paths ==
    {<<>>, <<"a">>, <<"a", ".">>, <<"S", "L", "D", "P", "R", "T">>,
     <<"a">> \o Extension, Extension,
     <<"a", ".", "s", "l", "d", "p", "r", "t">>,
     <<"a", ".", "S", "l", "d", "P", "r", "t">>,
     <<"a">> \o Extension \o <<".", "a">>}

\* str.upper(), on the characters of the paths
Lowercase == <<"a", "d", "e", "f", "g", "h", "i", "l", "n", "o", "p", "r", "s", "t">>
Uppercase == <<"A", "D", "E", "F", "G", "H", "I", "L", "N", "O", "P", "R", "S", "T">>
Upper(s) ==
    [i \in 1..Len(s) |->
        IF \E k \in 1..Len(Lowercase) : Lowercase[k] = s[i]
          THEN Uppercase[CHOOSE k \in 1..Len(Lowercase) : Lowercase[k] = s[i]]
          ELSE s[i]]

\* s.endswith(suffix)
EndsWith(s, suffix) ==
    /\ Len(s) >= Len(suffix)
    /\ SubSeq(s, Len(s) - Len(suffix) + 1, Len(s)) = suffix

\* (fault) the extension is appended to every path
WithExtensionAlways(file_path) == file_path \o Extension

\* if not file_path.upper().endswith('.SLDPRT'): file_path = file_path + '.SLDPRT'
WithExtension(file_path) ==
    IF ~EndsWith(Upper(file_path), Extension) THEN file_path \o Extension ELSE file_path

\* save_document(file_path): the path with its extension is what SaveAs3 is
\* given and what the messages and data["path"] carry.
SaveDocumentRuns(file_path) ==
    LET st == << <<"SaveAs3", 203>> >> IN
    WithDoc(FALSE,
        Caught("Failed to save document: {e}", st)
        \cup {Run(OperationResult(TRUE, Msg("Saved to: {file_path}"), <<>>,
                                  <<[path |-> WithExtension(file_path)]>>), Done(st)),
              Run(Failure(Msg("Failed to save document. Check if path is writable: {file_path}")),
                  Done(st))})

\* select_plane(plane)
SelectPlaneRuns(plane) ==
    LET st == << <<"ClearSelection2", 245>>, <<"SelectByID2", 249>> >> IN
    WithDoc(FALSE,
        Caught("Failed to select plane: {e}", st)
        \cup {Run(OperationResult(TRUE, Msg("Selected {plane_name}"), <<>>, <<>>), Done(st)),
              Run(Failure(Msg("Failed to select {plane_name}. Plane may not exist.")),
                  Done(st))})

\* What sketch_mgr.InsertSketch(True) leaves: an open sketch is closed; with no
\* open sketch one is opened if a plane or face is selected (entered).
Toggled(entered) == IF sketch_active THEN FALSE ELSE entered

\* insert_sketch()
InsertSketchRuns ==
    LET st == << <<"SketchManager", 293>>, <<"InsertSketch", 294>>,
                 <<"ActiveSketch", 297>>, <<"Name", 304>> >>
        text == "Failed to insert sketch: {e}"
        Raised(k, s) == RunSketch(Failure(MsgE(text, Exc(st[k][1], st[k][2]))),
                                  Calls(st, k, TRUE), s)
    IN
    WithDoc(FALSE,
        {Raised(k, sketch_active) : k \in 1..2}
        \cup UNION {
            {Raised(3, Toggled(entered))}
            \cup (IF ~Toggled(entered)
                   THEN {RunSketch(Failure(Msg("Failed to insert sketch. Make sure a plane is selected.")),
                                   Calls(st, 3, FALSE), FALSE)}
                   ELSE {Raised(4, TRUE),
                         RunSketch(OperationResult(TRUE, Msg("Started sketch: {sketch_name}"),
                                                   <<"Sketch1">>, <<>>), Done(st), TRUE),
                         RunSketch(OperationResult(TRUE, Msg("Started sketch: {sketch_name}"),
                                                   <<"Sketch">>, <<>>), Done(st), TRUE)})
            : entered \in BOOLEAN})

\* (fault) create_sketch inserts the sketch whatever select_plane returned
CreateSketchRunsAlways(plane) ==
    UNION {After(s.trace, InsertSketchRuns) : s \in SelectPlaneRuns(plane)}

\* create_sketch(plane): select_plane(plane), and insert_sketch() if it succeeded
CreateSketchRuns(plane) ==
    UNION {IF s.result.success THEN After(s.trace, InsertSketchRuns) ELSE {s} :
              s \in SelectPlaneRuns(plane)}

\* exit_sketch()
ExitSketchRuns ==
    LET st == IF sketch_active
                THEN << <<"SketchManager", 353>>, <<"ActiveSketch", 356>>,
                        <<"Name", 357>>, <<"InsertSketch", 360>> >>
                ELSE << <<"SketchManager", 353>>, <<"ActiveSketch", 356>>,
                        <<"InsertSketch", 360>> >>
    IN
    WithDoc(FALSE,
        Caught("Failed to exit sketch: {e}", st)
        \cup UNION {
            {RunSketch(IF sketch_active
                         THEN OperationResult(TRUE, Msg("Closed sketch: {sketch_name}"),
                                              <<"Sketch1">>, <<>>)
                         ELSE OperationResult(TRUE, Msg("Exited sketch mode"), <<>>, <<>>),
                       Done(st) \o rb, Toggled(entered)) : rb \in RebuildModel}
            : entered \in BOOLEAN})

\* (fault) an entity-creation call that returned nothing is made again
DrawRunsAgain(text, st, nothing, done) ==
    WithSketch(
        Caught(text, st)
        \cup {Run(Failure(Msg(nothing)), Done(st) \o <<Ev(st[Len(st)][1], st[Len(st)][2], TRUE)>>),
              Run(done, Done(st))})

\* A sketch-entity operation whose try block executes st, the last statement
\* being the entity-creation call: that call returns an entity (the operation
\* succeeds with `done`) or nothing (it fails with `nothing`).
DrawRuns(text, st, nothing, done) ==
    WithSketch(
        Caught(text, st)
        \cup {Run(Failure(Msg(nothing)), Done(st)), Run(done, Done(st))})

\* draw_rectangle(center_x, center_y, width, height): when the centre
\* rectangle comes back empty the corner rectangle is tried.
DrawRectangleRuns(width, height) ==
    LET centre == << <<"SketchManager", 422>>, <<"CreateCenterRectangle", 438>> >>
        corner == centre \o << <<"CreateCornerRectangle", 442>> >>
        text == "Failed to draw rectangle: {e}"
        done == OperationResult(TRUE, Msg("Drew {width}x{height}mm rectangle at ({center_x}, {center_y})"),
                                <<>>, <<[width_mm |-> width, height_mm |-> height]>>)
    IN
    IF width <= 0 \/ height <= 0
      THEN {Run(Failure(Msg("Width and height must be positive. Got width={width}, height={height}")),
                <<>>)}
      ELSE WithSketch(
              Caught(text, corner)
              \cup {Run(done, Done(centre)), Run(done, Done(corner)),
                    Run(Failure(Msg("Failed to draw rectangle")), Done(corner))})

\* draw_circle(center_x, center_y, radius)
DrawCircleRuns(radius) ==
    IF radius <= 0
      THEN {Run(Failure(Msg("Radius must be positive. Got radius={radius}")), <<>>)}
      ELSE DrawRuns("Failed to draw circle: {e}",
                    << <<"SketchManager", 491>>, <<"CreateCircleByRadius", 500>> >>,
                    "Failed to draw circle",
                    OperationResult(TRUE, Msg("Drew circle with radius {radius}mm at ({center_x}, {center_y})"),
                                    <<>>, <<[radius_mm |-> radius]>>))

\* draw_line(x1, y1, x2, y2)
DrawLineRuns ==
    DrawRuns("Failed to draw line: {e}",
             << <<"SketchManager", 544>>, <<"CreateLine", 553>> >>,
             "Failed to draw line",
             OperationResult(TRUE, Msg("Drew line from ({x1}, {y1}) to ({x2}, {y2}) mm"),
                             <<>>, <<[length_mm |-> "length"]>>))

\* draw_arc(center_x, center_y, start_x, start_y, end_x, end_y)
DrawArcRuns ==
    DrawRuns("Failed to draw arc: {e}",
             << <<"SketchManager", 607>>, <<"CreateArc", 620>> >>,
             "Failed to draw arc",
             OperationResult(TRUE, Msg("Drew arc from ({start_x}, {start_y}) to ({end_x}, {end_y}) centered at ({center_x}, {center_y})"),
                             <<>>, <<[center |-> "center"]>>))

\* (fault) draw_polygon accepts a polygon of two sides
DrawPolygonRunsTwoSided(radius, sides) ==
    IF sides < 2
      THEN {Run(Failure(Msg("Polygon must have at least 3 sides. Got sides={sides}")), <<>>)}
    ELSE IF radius <= 0
      THEN {Run(Failure(Msg("Radius must be positive. Got radius={radius}")), <<>>)}
      ELSE DrawRuns("Failed to draw polygon: {e}",
                    << <<"SketchManager", 681>>, <<"CreatePolygon", 695>> >>,
                    "Failed to draw polygon",
                    OperationResult(TRUE, Msg("Drew {sides}-sided polygon with radius {radius}mm at ({center_x}, {center_y})"),
                                    <<>>, <<[sides |-> sides, radius_mm |-> radius]>>))

\* (fault) draw_polygon looks for the document and the sketch before it
\* validates its arguments
DrawPolygonRunsLate(radius, sides) ==
    LET st == << <<"SketchManager", 681>>, <<"CreatePolygon", 695>> >> IN
    WithSketch(
        IF sides < 3
          THEN {Run(Failure(Msg("Polygon must have at least 3 sides. Got sides={sides}")), <<>>)}
        ELSE IF radius <= 0
          THEN {Run(Failure(Msg("Radius must be positive. Got radius={radius}")), <<>>)}
          ELSE Caught("Failed to draw polygon: {e}", st)
               \cup {Run(Failure(Msg("Failed to draw polygon")), Done(st)),
                     Run(OperationResult(TRUE, Msg("Drew {sides}-sided polygon with radius {radius}mm at ({center_x}, {center_y})"),
                                         <<>>, <<[sides |-> sides, radius_mm |-> radius]>>),
                         Done(st))})

\* draw_polygon(center_x, center_y, radius, sides)
DrawPolygonRuns(radius, sides) ==
    IF sides < 3
      THEN {Run(Failure(Msg("Polygon must have at least 3 sides. Got sides={sides}")), <<>>)}
    ELSE IF radius <= 0
      THEN {Run(Failure(Msg("Radius must be positive. Got radius={radius}")), <<>>)}
      ELSE DrawRuns("Failed to draw polygon: {e}",
                    << <<"SketchManager", 681>>, <<"CreatePolygon", 695>> >>,
                    "Failed to draw polygon",
                    OperationResult(TRUE, Msg("Drew {sides}-sided polygon with radius {radius}mm at ({center_x}, {center_y})"),
                                    <<>>, <<[sides |-> sides, radius_mm |-> radius]>>))

\* draw_spline(points), points being a list of npoints pairs: CreateSpline2
\* is tried first and CreateSpline when it raised or returned nothing; an
\* exception of either is dropped.
DrawSplineRuns(npoints) ==
    LET mgr == << <<"SketchManager", 742>> >>
        done == OperationResult(TRUE, Msg("Drew spline through {len(points)} points"),
                                <<>>, <<[point_count |-> npoints]>>)
        failed == Failure(Msg("Failed to draw spline. Try using multiple line segments instead."))
    IN
    IF npoints < 2
      THEN {Run(Failure(Msg("Spline requires at least 2 points. Got {len(points)} points.")), <<>>)}
      ELSE WithSketch(
              Caught("Failed to draw spline: {e}", mgr)
              \cup {Run(done, Done(mgr) \o <<Ev("CreateSpline2", 761, TRUE)>>)}
              \cup UNION {
                    {Run(done, Done(mgr) \o <<Ev("CreateSpline2", 761, first),
                                              Ev("CreateSpline", 782, TRUE)>>),
                     Run(failed, Done(mgr) \o <<Ev("CreateSpline2", 761, first),
                                                Ev("CreateSpline", 782, second)>>)}
                    : first \in BOOLEAN, second \in BOOLEAN})

\* (fault) a rebuild that raises fails the operation
FeatureRunsRebuilt(text, st, name_line, nothing, default, message, data) ==
    LET full == Done(st) \o <<Ev("EditRebuild3", 107, TRUE), Ev("Name", name_line, TRUE)>> IN
    Caught(text, st)
    \cup {Run(Failure(Msg(nothing)), Done(st)),
          Run(Failure(MsgE(text, Exc("EditRebuild3", 107))),
              Done(st) \o <<Ev("EditRebuild3", 107, FALSE)>>),
          Run(Failure(MsgE(text, Exc("Name", name_line))),
              Done(st) \o <<Ev("EditRebuild3", 107, TRUE), Ev("Name", name_line, FALSE)>>),
          Run(OperationResult(TRUE, Msg(message), <<"Feature1">>, <<data>>), full),
          Run(OperationResult(TRUE, Msg(message), <<default>>, <<data>>), full)}

\* The end of extrude, fillet and chamfer: st ends with the feature-creation
\* call. It raises, returns no feature (`nothing`), or returns one; then the
\* model is rebuilt and the feature's name read (`default` when it has none).
FeatureRuns(text, st, name_line, nothing, default, message, data) ==
    LET full(rb) == Done(st) \o rb \o <<Ev("Name", name_line, TRUE)>> IN
    Caught(text, st)
    \cup {Run(Failure(Msg(nothing)), Done(st))}
    \cup UNION {
          {Run(Failure(MsgE(text, Exc("Name", name_line))),
               Done(st) \o rb \o <<Ev("Name", name_line, FALSE)>>),
           Run(OperationResult(TRUE, Msg(message), <<"Feature1">>, <<data>>), full(rb)),
           Run(OperationResult(TRUE, Msg(message), <<default>>, <<data>>), full(rb))}
          : rb \in RebuildModel}

\* operation.title()
Title(operation) == IF operation = "boss" THEN "Boss" ELSE "Cut"

\* (fault) extrude accepts a depth of 0
ExtrudeRunsZero(depth, operation, direction) ==
    IF depth < 0
      THEN {Run(Failure(Msg("Depth must be positive. Got depth={depth}")), <<>>)}
    ELSE IF operation \notin {"boss", "cut"}
      THEN {Run(Failure(Msg("Operation must be 'boss' or 'cut'. Got: {operation}")), <<>>)}
    ELSE IF direction \notin {"forward", "backward", "both"}
      THEN {Run(Failure(Msg("Direction must be 'forward', 'backward', or 'both'. Got: {direction}")),
                <<>>)}
    ELSE WithDoc(FALSE,
            FeatureRuns("Failed to extrude: {e}",
                        << <<"FeatureManager", 847>>,
                           IF operation = "boss" THEN <<"FeatureExtrusion2", 889>>
                                                 ELSE <<"FeatureCut3", 915>> >>,
                        941,
                        "Failed to create extrusion. Make sure a closed sketch profile exists.",
                        Title(operation),
                        "Extruded {depth}mm ({operation})",
                        [depth_mm |-> depth, operation |-> operation, direction |-> direction]))

\* extrude(depth, operation, direction)
ExtrudeRuns(depth, operation, direction) ==
    IF depth <= 0
      THEN {Run(Failure(Msg("Depth must be positive. Got depth={depth}")), <<>>)}
    ELSE IF operation \notin {"boss", "cut"}
      THEN {Run(Failure(Msg("Operation must be 'boss' or 'cut'. Got: {operation}")), <<>>)}
    ELSE IF direction \notin {"forward", "backward", "both"}
      THEN {Run(Failure(Msg("Direction must be 'forward', 'backward', or 'both'. Got: {direction}")),
                <<>>)}
    ELSE WithDoc(FALSE,
            FeatureRuns("Failed to extrude: {e}",
                        << <<"FeatureManager", 847>>,
                           IF operation = "boss" THEN <<"FeatureExtrusion2", 889>>
                                                 ELSE <<"FeatureCut3", 915>> >>,
                        941,
                        "Failed to create extrusion. Make sure a closed sketch profile exists.",
                        Title(operation),
                        "Extruded {depth}mm ({operation})",
                        [depth_mm |-> depth, operation |-> operation, direction |-> direction]))

\* The edges of a box, the one body of the spec's fillet example.
BoxEdges == 12

\* The solid bodies GetBodies2 can return, each given by its number of edges;
\* the empty list stands for None or an empty array.
BodyLists == UNION {[1..n -> 0..MaxEdges] : n \in 0..MaxBodies} \cup {<<BoxEdges>>}

\* for body in bodies: edges = body.GetEdges(); for edge in edges: edge.Select4(True, None)
RECURSIVE EdgeStatements(_, _, _)
EdgeStatements(bodies, get_line, select_line) ==
    IF bodies = <<>> THEN <<>>
    ELSE << <<"GetEdges", get_line>> >>
         \o [i \in 1..Head(bodies) |-> <<"Select4", select_line>>]
         \o EdgeStatements(Tail(bodies), get_line, select_line)

\* (fault) edge_count counts the bodies
EdgeCountOfBodies(bodies) == Len(bodies)

\* edge_count after the loops
RECURSIVE EdgeCount(_)
EdgeCount(bodies) ==
    IF bodies = <<>> THEN 0 ELSE Head(bodies) + EdgeCount(Tail(bodies))

\* fillet and chamfer on a document whose solid bodies are `bodies`: head
\* ends with the GetBodies2 call, create is the feature-creation statement.
EdgeFeatureRuns(text, head, bodies, get_line, select_line, create, name_line, no_edges, nothing, default, message, data) ==
    LET selected == head \o EdgeStatements(bodies, get_line, select_line) IN
    IF bodies = <<>>
      THEN Caught(text, head)
           \cup {Run(Failure(Msg("No solid bodies found. Create geometry first using extrude.")),
                     Done(head))}
    ELSE IF EdgeCount(bodies) = 0
      THEN Caught(text, selected) \cup {Run(Failure(Msg(no_edges)), Done(selected))}
      ELSE FeatureRuns(text, selected \o <<create>>, name_line, nothing, default,
                       message, data)

\* fillet(radius) on a document whose solid bodies are `bodies`
FilletRunsOn(radius, bodies) ==
    IF radius <= 0
      THEN {Run(Failure(Msg("Radius must be positive. Got radius={radius}")), <<>>)}
      ELSE WithDoc(FALSE,
              EdgeFeatureRuns(
                  "Failed to create fillet: {e}",
                  << <<"FeatureManager", 984>>, <<"ClearSelection2", 990>>,
                     <<"GetBodies2", 994>> >>,
                  bodies, 1004, 1007, <<"FeatureFillet3", 1018>>, 1031,
                  "No edges found to fillet.",
                  "Failed to create fillet. Radius may be too large for edge geometry.",
                  "Fillet",
                  "Applied {radius}mm fillet to {edge_count} edges",
                  [radius_mm |-> radius, edge_count |-> EdgeCount(bodies)]))

\* fillet(radius)
FilletRuns(radius) == UNION {FilletRunsOn(radius, bodies) : bodies \in BodyLists}

\* chamfer(distance) on a document whose solid bodies are `bodies`
ChamferRunsOn(distance, bodies) ==
    IF distance <= 0
      THEN {Run(Failure(Msg("Distance must be positive. Got distance={distance}")), <<>>)}
      ELSE WithDoc(FALSE,
              EdgeFeatureRuns(
                  "Failed to create chamfer: {e}",
                  << <<"FeatureManager", 1074>>, <<"ClearSelection2", 1080>>,
                     <<"GetBodies2", 1082>> >>,
                  bodies, 1092, 1095, <<"InsertFeatureChamfer", 1108>>, 1120,
                  "No edges found to chamfer.",
                  "Failed to create chamfer. Distance may be too large for edge geometry.",
                  "Chamfer",
                  "Applied {distance}mm chamfer to {edge_count} edges",
                  [distance_mm |-> distance, edge_count |-> EdgeCount(bodies)]))

\* chamfer(distance)
ChamferRuns(distance) == UNION {ChamferRunsOn(distance, bodies) : bodies \in BodyLists}

\* capture_screenshot(): exceptions of the view change, the zoom and the
\* window-handle read are dropped where they occur. (conn.app at line 1159
\* cannot raise here: _get_active_doc() has just found the manager connected.)
CaptureScreenshotRuns ==
    LET view == << <<"ActiveView", 1160>> >>
        text == "Failed to capture screenshot: {e}"
        prepared(a, b) == Done(view) \o <<Ev("ShowNamedView2", 1170, a),
                                          Ev("ViewZoomtofit2", 1176, b)>>
    IN
    WithDoc(FALSE,
        Caught(text, view)
        \cup {Run(Failure(Msg("No active view available for screenshot.")), Done(view))}
        \cup UNION {
              {Run(Failure(MsgE(text, Exc("Frame", 1181))),
                   prepared(a, b) \o <<Ev("Frame", 1181, FALSE)>>),
               Run(OperationResult(TRUE, Msg("Screenshot captured (view set to isometric, zoomed to fit)"),
                                   <<>>, <<[view |-> "isometric", fit |-> TRUE, note |-> "note"]>>),
                   prepared(a, b) \o <<Ev("Frame", 1181, TRUE), Ev("GetHWnd", 1190, TRUE)>>)}
              \cup
              {Run(OperationResult(TRUE, Msg("View prepared for screenshot (isometric, zoom to fit)"),
                                   <<>>, <<[view |-> "isometric", fit |-> TRUE]>>),
                   prepared(a, b) \o <<Ev("Frame", 1181, TRUE), Ev("GetHWnd", 1190, h)>>)
                 : h \in BOOLEAN}
              : a \in BOOLEAN, b \in BOOLEAN})

\* The try block that looks for the active sketch (lines 1293-1299): its calls
\* when all return, and when one raises (the exception is dropped).
ActiveSketchLookups ==
    LET st == IF sketch_active
                THEN << <<"SketchManager", 1294>>, <<"ActiveSketch", 1295>>, <<"Name", 1297>> >>
                ELSE << <<"SketchManager", 1294>>, <<"ActiveSketch", 1295>> >>
    IN {Done(st)} \cup {Calls(st, k, TRUE) : k \in 1..Len(st)}

\* get_model_state(): the enumeration of the features (lines 1262-1275) is one
\* event, failed when any of its calls raised; that exception is dropped too.
GetModelStateRuns ==
    LET info == << <<"GetTitle", 1239>>, <<"GetPathName", 1240>>,
                   <<"GetType", 1243>>, <<"GetSaveFlag", 1257>> >>
    IN
    WithDoc(TRUE,
        Caught("Failed to get model state: {e}", info)
        \cup {Run(OperationResult(TRUE, Msg("Model state retrieved: {doc_name}"), <<>>,
                                  <<[model_state |-> "ModelState"]>>),
                  Done(info) \o <<Ev("FirstFeature", 1263, f)>> \o look)
                : f \in BOOLEAN, look \in ActiveSketchLookups})

\* create_new_document(template_path), from `app = conn.app` on: the default
\* template is asked for when no template_path was given.
NewDocumentRuns(given) ==
    LET st == IF given
                THEN << <<"NewDocument", 147>>, <<"GetTitle", 156>> >>
                ELSE << <<"GetUserPreferenceStringValue", 140>>,
                        <<"NewDocument", 147>>, <<"GetTitle", 156>> >>
        n == Len(st)
        text == "Failed to create new document: {e}"
        Created(r, tr) == [result |-> r, trace |-> tr, doc |-> TRUE, sketch |-> FALSE]
    IN
    IF ~is_conn
      THEN {Run(Failure(MsgE(text, Exc("app", 136))), <<Ev("app", 136, FALSE)>>)}
      ELSE {Run(Failure(MsgE(text, Exc(st[k][1], st[k][2]))), Calls(st, k, TRUE)) :
               k \in 1..(n - 1)}
           \cup {Run(Failure(Msg("Failed to create new document. Check template path.")),
                     Calls(st, n - 1, FALSE)),
                 Created(Failure(MsgE(text, Exc("GetTitle", 156))), Calls(st, n, TRUE)),
                 Created(OperationResult(TRUE, Msg("Created new part: {doc_name}"), <<>>,
                                         <<[document |-> "DocumentInfo"]>>), Done(st))}

(***************************************************************************)
(* What the operations give to the application.                            *)
(***************************************************************************)

\* The calls that are given a path, a plane name, a length or a coordinate.
ForwardingCalls ==
    {"SaveAs3", "SelectByID2", "CreateCenterRectangle", "CreateCornerRectangle", "CreateCircleByRadius",
     "CreateLine", "CreateArc", "CreatePolygon", "CreateSpline2", "CreateSpline",
     "FeatureExtrusion2", "FeatureCut3", "FeatureFillet3", "InsertFeatureChamfer"}

\* An argument as the code computes it: a value passed as it is (a path, a
\* flag, a constant), the float of a number the caller gave, or an
\* expression over such.
Given(v) == [form |-> "given", value |-> v]
Number(k) == [form |-> "number", value |-> k]
InMetres(x) == [form |-> "mm_to_m", of |-> <<x>>]
Half(x) == [form |-> "half", of |-> <<x>>]
Sum(x, y) == [form |-> "sum", of |-> <<x, y>>]
Difference(x, y) == [form |-> "difference", of |-> <<x, y>>]
Product(x, y) == [form |-> "product", of |-> <<x, y>>]
Array(items) == [form |-> "array", of |-> items]

\* The value of an argument, in Python's arithmetic.
RECURSIVE Value(_)
Value(x) ==
    IF x.form = "given" THEN x.value
    ELSE IF x.form = "number" THEN FloatOf(x.value)
    ELSE IF x.form = "mm_to_m" THEN mm_to_m(Value(x.of[1]))
    ELSE IF x.form = "half" THEN Halved(Value(x.of[1]))
    ELSE IF x.form = "sum" THEN Plus(Value(x.of[1]), Value(x.of[2]))
    ELSE IF x.form = "difference" THEN Minus(Value(x.of[1]), Value(x.of[2]))
    ELSE IF x.form = "product" THEN Times(Value(x.of[1]), Value(x.of[2]))
    ELSE [i \in DOMAIN x.of |-> Value(x.of[i])]

\* for x, y in points: point_array.extend([mm_to_m(x), mm_to_m(y), 0.0])
RECURSIVE PointArray(_)
PointArray(points) ==
    IF points = <<>> THEN <<>>
    ELSE <<InMetres(Number(points[1][1])), InMetres(Number(points[1][2])), Number(0)>>
         \o PointArray(Tail(points))

\* draw_rectangle: the centre and the corners (x1, y1), (x2, y2), in metres
RectangleCorners(a) ==
    LET cx_m == InMetres(Number(a.center_x))
        cy_m == InMetres(Number(a.center_y))
        half_w == Half(InMetres(Number(a.width)))
        half_h == Half(InMetres(Number(a.height)))
    IN [cx_m |-> cx_m, cy_m |-> cy_m,
        x1 |-> Difference(cx_m, half_w), y1 |-> Difference(cy_m, half_h),
        x2 |-> Sum(cx_m, half_w), y2 |-> Sum(cy_m, half_h)]

\* extrude: dir1_end, the end condition of the first direction
\* (SW_END_CONDITION_BLIND = 0, SW_END_CONDITION_MID_PLANE = 6)
SW_END_CONDITION_BLIND == 0
SW_END_CONDITION_MID_PLANE == 6

\* (fault) "both" is extruded blind
EndConditionBlind(direction) == SW_END_CONDITION_BLIND

EndCondition(direction) ==
    IF direction = "forward" THEN SW_END_CONDITION_BLIND
    ELSE IF direction = "backward" THEN SW_END_CONDITION_BLIND
    ELSE SW_END_CONDITION_MID_PLANE

\* The first seven arguments of FeatureExtrusion2 and of FeatureCut3.
ExtrusionArguments(a) ==
    [Sd |-> Given(TRUE), Flip |-> Given(a.direction = "backward"), Dir |-> Given(FALSE),
     T1 |-> Given(EndCondition(a.direction)), T2 |-> Given(0),
     D1 |-> InMetres(Number(a.depth)), D2 |-> Given(0)]

\* The arguments operation o, called with a, gives to `call`: those that are
\* computed from a, and the constants next to them.
Arguments(o, a, call) ==
    IF call = "SaveAs3"
      THEN [PathName |-> Given(WithExtension(a.file_path)), Version |-> Given(0),
            Options |-> Given(2)]
    ELSE IF call = "SelectByID2"
      THEN [Name |-> Given(a.plane), Type |-> Given("PLANE")]
    ELSE IF call = "CreateCenterRectangle"
      THEN LET r == RectangleCorners(a) IN
           [Xc |-> r.cx_m, Yc |-> r.cy_m, Zc |-> Given(0),
            Xp |-> r.x2, Yp |-> r.y2, Zp |-> Given(0)]
    ELSE IF call = "CreateCornerRectangle"
      THEN LET r == RectangleCorners(a) IN
           [X1 |-> r.x1, Y1 |-> r.y1, Z1 |-> Given(0),
            X2 |-> r.x2, Y2 |-> r.y2, Z2 |-> Given(0)]
    ELSE IF call = "CreateCircleByRadius"
      THEN [Xc |-> InMetres(Number(a.center_x)), Yc |-> InMetres(Number(a.center_y)),
            Zc |-> Given(0), Radius |-> InMetres(Number(a.radius))]
    ELSE IF call = "CreateLine"
      THEN [X1 |-> InMetres(Number(a.x1)), Y1 |-> InMetres(Number(a.y1)), Z1 |-> Given(0),
            X2 |-> InMetres(Number(a.x2)), Y2 |-> InMetres(Number(a.y2)), Z2 |-> Given(0)]
    ELSE IF call = "CreateArc"
      THEN [Xc |-> InMetres(Number(a.center_x)), Yc |-> InMetres(Number(a.center_y)),
            Zc |-> Given(0),
            Xs |-> InMetres(Number(a.start_x)), Ys |-> InMetres(Number(a.start_y)),
            Zs |-> Given(0),
            Xe |-> InMetres(Number(a.end_x)), Ye |-> InMetres(Number(a.end_y)),
            Ze |-> Given(0), Direction |-> Given(1)]
    ELSE IF call = "CreatePolygon"
      THEN LET cx_m == InMetres(Number(a.center_x))
               cy_m == InMetres(Number(a.center_y))
               r_m == InMetres(Number(a.radius))
           IN [NumSides |-> Given(a.sides), Xc |-> cx_m, Yc |-> cy_m, Zc |-> Given(0),
               Xv |-> Sum(cx_m, Product(r_m, Given(CosHalfPi))),
               Yv |-> Sum(cy_m, Product(r_m, Given(SinHalfPi))),
               Zv |-> Given(0), Inscribed |-> Given(FALSE)]
    ELSE IF call = "CreateSpline2"
      THEN [PointData |-> Array(PointArray(a.points)), Closed |-> Given(FALSE)]
    ELSE IF call = "CreateSpline"
      THEN [PointData |-> Array(PointArray(a.points))]
    ELSE IF call \in {"FeatureExtrusion2", "FeatureCut3"}
      THEN ExtrusionArguments(a)
    ELSE IF call = "FeatureFillet3"
      THEN [Options |-> Given(195), Radius |-> InMetres(Number(a.radius))]
      ELSE [Type |-> Given(0), ChamferType |-> Given(0),
            Width |-> InMetres(Number(a.distance)), Angle |-> Given(0),
            OtherDist |-> InMetres(Number(a.distance))]

\* The arguments given to the calls of tr that are forwarding calls, in order.
Forwarded(o, a, tr) ==
    LET made == SelectSeq(tr, LAMBDA e : e.call \in ForwardingCalls) IN
    [i \in 1..Len(made) |->
        LET given == Arguments(o, a, made[i].call) IN
        [call |-> made[i].call, ok |-> made[i].ok,
         args |-> [f \in DOMAIN given |-> Value(given[f])]]]

(***************************************************************************)
(* The operations as actions.                                              *)
(***************************************************************************)

\* The caller takes the result of its last call; the record of that call and
\* the locals of the call are gone.
TakeResult(c) ==
    /\ pc[c] = "idle"
    /\ op[c] # "-"
    /\ op' = [op EXCEPT ![c] = "-"]
    /\ ret' = [ret EXCEPT ![c] = "-"]
    /\ trace' = [trace EXCEPT ![c] = <<>>]
    /\ res' = [res EXCEPT ![c] = NoResult]
    /\ args' = [args EXCEPT ![c] = NoArgs]
    /\ sent' = [sent EXCEPT ![c] = <<>>]
    /\ tmo' = [tmo EXCEPT ![c] = 0]
    /\ elapsed' = [elapsed EXCEPT ![c] = 0]
    /\ nok' = 0 /\ lost' = "no"
    /\ UNCHANGED <<app, is_conn, conf, pc, overlap, appstate>>

\* Caller c is between calls and has taken the result of its last call.
Ready(c) == pc[c] = "idle" /\ op[c] = "-"

\* A caller that is ready calls operation o with the arguments a; it executes
\* as `run`.
Operate(c, o, a, run) ==
    /\ Ready(c)
    /\ pc' = pc
    /\ op' = [op EXCEPT ![c] = o]
    /\ ret' = [ret EXCEPT ![c] = "OperationResult"]
    /\ trace' = [trace EXCEPT ![c] = run.trace]
    /\ res' = [res EXCEPT ![c] = run.result]
    /\ args' = [args EXCEPT ![c] = a]
    /\ sent' = [sent EXCEPT ![c] = Forwarded(o, a, run.trace)]
    /\ doc_open' = run.doc
    /\ sketch_active' = run.sketch
    /\ nok' = 0 /\ lost' = "no"
    /\ overlap' = (overlap \/ Overlaps(c))
    /\ UNCHANGED <<app, is_conn, conf, tmo, elapsed>>

\* create_new_part(): the response made of create_new_document()'s result
NewPartResponse(result) ==
    IF result.success /\ result.data # <<>>
      THEN [success |-> result.success, message |-> result.message,
            document |-> result.data[1].document]
      ELSE [success |-> result.success, message |-> result.message]

\* (fault) the screenshot is taken whatever the operation returned
ShotTakenAlways(tool, result) == TRUE

\* Whether the tool goes on to capture_screenshot(): create_new_part under
\* `if result.success and result.data:`, the others under `if result.success:`
ShotTaken(tool, result) ==
    IF tool = "create_new_part" THEN result.success /\ result.data # <<>>
    ELSE result.success

\* An operation in progress, called with the arguments a, ends as `run`.
Complete(c, a, run) ==
    /\ IF op[c] = "create_new_part"
         THEN /\ res' = [res EXCEPT ![c] = NewPartResponse(run.result)]
              /\ IF ShotTaken("create_new_part", run.result)
                   THEN Goto(c, "t_shot") /\ ret' = ret
                   ELSE Return(c, "dict")
         ELSE /\ res' = [res EXCEPT ![c] = run.result]
              /\ Return(c, "OperationResult")
    /\ trace' = [trace EXCEPT ![c] = @ \o run.trace]
    /\ args' = [args EXCEPT ![c] = a]
    /\ sent' = [sent EXCEPT ![c] = <<>>]
    /\ doc_open' = run.doc
    /\ sketch_active' = run.sketch
    /\ UNCHANGED <<app, is_conn, conf, op, tmo, elapsed, nok, lost, overlap>>

\* create_new_document(): conn = get_connection(); if not conn.is_connected:
\* conn.connect()
StartCreateNewDocument(c) ==
    /\ op[c] = "-"
    /\ Begin(c, "create_new_document")
    /\ Goto(c, IF IsConnected THEN "nd_body" ELSE "c_check")
    /\ tmo' = [tmo EXCEPT ![c] = 0]
    /\ UNCHANGED <<app, is_conn, conf, elapsed, appstate>>

\* if not conn.connect(): return OperationResult(success=False, ...)
NewDocumentRefused(c) ==
    /\ pc[c] = "nd_refused"
    /\ Complete(c, NoArgs, Run(Failure(Msg("Failed to connect to SolidWorks. Is it running?")), <<>>))

NewDocumentBody(c) ==
    /\ pc[c] = "nd_body"
    /\ \E given \in BOOLEAN : \E run \in NewDocumentRuns(given) :
       Complete(c, [template_path |-> given], run)

SaveDocument(c) ==
    /\ Ready(c)
    /\ \E file_path \in Paths : \E run \in SaveDocumentRuns(file_path) :
       Operate(c, "save_document", [file_path |-> file_path], run)

SelectPlane(c) ==
    /\ Ready(c)
    /\ \E plane \in Planes : \E run \in SelectPlaneRuns(plane) :
       Operate(c, "select_plane", [plane |-> plane], run)

InsertSketch(c) ==
    /\ Ready(c)
    /\ \E run \in InsertSketchRuns : Operate(c, "insert_sketch", NoArgs, run)

CreateSketch(c) ==
    /\ Ready(c)
    /\ \E plane \in Planes : \E run \in CreateSketchRuns(plane) :
       Operate(c, "create_sketch", [plane |-> plane], run)

ExitSketch(c) ==
    /\ Ready(c)
    /\ \E run \in ExitSketchRuns : Operate(c, "exit_sketch", NoArgs, run)

DrawRectangle(c) ==
    /\ Ready(c)
    /\ \E centre \in Centres, width \in Lengths, height \in Lengths :
       \E run \in DrawRectangleRuns(width, height) :
       Operate(c, "draw_rectangle",
               [center_x |-> centre[1], center_y |-> centre[2],
                width |-> width, height |-> height], run)

DrawCircle(c) ==
    /\ Ready(c)
    /\ \E centre \in Centres, radius \in Lengths : \E run \in DrawCircleRuns(radius) :
       Operate(c, "draw_circle",
               [center_x |-> centre[1], center_y |-> centre[2], radius |-> radius], run)

DrawLine(c) ==
    /\ Ready(c)
    /\ \E s \in Segments : \E run \in DrawLineRuns :
       Operate(c, "draw_line", [x1 |-> s[1], y1 |-> s[2], x2 |-> s[3], y2 |-> s[4]], run)

DrawArc(c) ==
    /\ Ready(c)
    /\ \E s \in Arcs : \E run \in DrawArcRuns :
       Operate(c, "draw_arc",
               [center_x |-> s[1], center_y |-> s[2], start_x |-> s[3], start_y |-> s[4],
                end_x |-> s[5], end_y |-> s[6]], run)

DrawPolygon(c) ==
    /\ Ready(c)
    /\ \E centre \in Centres, radius \in Lengths, sides \in SideCounts :
       \E run \in DrawPolygonRuns(radius, sides) :
       Operate(c, "draw_polygon",
               [center_x |-> centre[1], center_y |-> centre[2],
                radius |-> radius, sides |-> sides], run)

DrawSpline(c) ==
    /\ Ready(c)
    /\ \E points \in SplinePoints : \E run \in DrawSplineRuns(Len(points)) :
       Operate(c, "draw_spline", [npoints |-> Len(points), points |-> points], run)

Extrude(c) ==
    /\ Ready(c)
    /\ \E depth \in Lengths, operation \in Operations, direction \in Directions :
       \E run \in ExtrudeRuns(depth, operation, direction) :
       Operate(c, "extrude",
               [depth |-> depth, operation |-> operation, direction |-> direction], run)

Fillet(c) ==
    /\ Ready(c)
    /\ \E radius \in Lengths, bodies \in BodyLists : \E run \in FilletRunsOn(radius, bodies) :
       Operate(c, "fillet", [radius |-> radius, bodies |-> bodies], run)

Chamfer(c) ==
    /\ Ready(c)
    /\ \E distance \in Lengths, bodies \in BodyLists : \E run \in ChamferRunsOn(distance, bodies) :
       Operate(c, "chamfer", [distance |-> distance, bodies |-> bodies], run)

CaptureScreenshot(c) ==
    /\ Ready(c)
    /\ \E run \in CaptureScreenshotRuns : Operate(c, "capture_screenshot", NoArgs, run)

GetModelState(c) ==
    /\ Ready(c)
    /\ \E run \in GetModelStateRuns : Operate(c, "get_model_state", NoArgs, run)



(***************************************************************************)
(* The unit conversion helpers (solidworks/models.py), called on their own.*)
(***************************************************************************)

\* The values given to mm_to_m: k / 2 millimetres.
Millimetres == {Halved(FloatOf(k)) : k \in (-MaxMillimetres)..MaxMillimetres}

\* A caller that is ready calls helper o with `value`, which returns
\* `returned`; `original` is the value the conversions started from.
Convert(c, o, value, original, returned) ==
    /\ pc' = pc
    /\ op' = [op EXCEPT ![c] = o]
    /\ ret' = [ret EXCEPT ![c] = returned]
    /\ trace' = [trace EXCEPT ![c] = <<>>]
    /\ res' = [res EXCEPT ![c] = NoResult]
    /\ args' = [args EXCEPT ![c] = [value |-> value, original |-> original]]
    /\ sent' = [sent EXCEPT ![c] = <<>>]
    /\ nok' = 0 /\ lost' = "no"
    /\ overlap' = (overlap \/ Overlaps(c))
    /\ UNCHANGED <<app, is_conn, conf, tmo, elapsed, appstate>>

\* mm_to_m(value)
MmToM(c) ==
    /\ Ready(c)
    /\ \E value \in Millimetres : Convert(c, "mm_to_m", value, value, mm_to_m(value))

\* m_to_mm(value), of the value mm_to_m has just returned
MToMm(c) ==
    /\ pc[c] = "idle" /\ op[c] = "mm_to_m"
    /\ Convert(c, "m_to_mm", ret[c], args[c].original, m_to_mm(ret[c]))

(***************************************************************************)
(* The draw_spline tool (mcp_tools/sketch_tools.py): it normalises the     *)
(* point list it is given and hands it to the draw_spline operation.       *)
(***************************************************************************)

\* A point as the tool receives it: a mapping with the keys `keys`, a list or
\* tuple of `len` elements, or something else (a number, a string, null).
\* `numeric` says whether float() accepts the coordinates it would read.
Point(kind, keys, len, numeric) ==
    [kind |-> kind, keys |-> keys, len |-> len, numeric |-> numeric]

PointShapes ==
    {Point("dict", {"x", "y"}, 0, TRUE), Point("dict", {"x", "y"}, 0, FALSE),
     Point("dict", {"x"}, 0, TRUE),
     Point("list", {}, 2, TRUE), Point("list", {}, 2, FALSE),
     Point("list", {}, 3, TRUE), Point("list", {}, 1, TRUE),
     Point("other", {}, 0, TRUE)}

\* the point lists given to the tool have up to MaxPoints points
MaxPoints == 2

PointLists == UNION {[1..n -> PointShapes] : n \in 0..MaxPoints}

\* _coerce_point(point): "pair" for a tuple of two floats, "None", or
\* "raise" when float() raises on a coordinate.
CoercePoint(point) ==
    IF point.kind = "dict"
      THEN IF {"x", "y"} \subseteq point.keys
             THEN (IF point.numeric THEN "pair" ELSE "raise")
             ELSE "None"
    ELSE IF point.kind = "list" /\ point.len >= 2
      THEN (IF point.numeric THEN "pair" ELSE "raise")
      ELSE "None"

\* The loop of _normalize_points over the points not yet parsed, `parsed`
\* being the number of points parsed so far.
RECURSIVE ParsePoints(_, _)
ParsePoints(points, parsed) ==
    IF points = <<>>
      THEN IF parsed < 2
             THEN [parsed |-> 0, raised |-> FALSE,
                   error |-> "Spline requires at least 2 points."]
             ELSE [parsed |-> parsed, raised |-> FALSE, error |-> ""]
    ELSE IF CoercePoint(Head(points)) = "raise"
      THEN [parsed |-> 0, raised |-> TRUE, error |-> ""]
    ELSE IF CoercePoint(Head(points)) = "None"
      THEN [parsed |-> 0, raised |-> FALSE,
            error |-> "Each point must be a dict with x/y or a list/tuple of [x, y]."]
      ELSE ParsePoints(Tail(points), parsed + 1)

\* _normalize_points(points): (parsed, error), or an exception
NormalizePoints(points) ==
    IF points = <<>>
      THEN [parsed |-> 0, raised |-> FALSE,
            error |-> "points is required. Provide at least 2 points with x/y coordinates."]
      ELSE ParsePoints(points, 0)

\* The response of a tool: {"success": ..., "message": ...} and, when the
\* result has data, "data" (<<>> when the key is absent).
Response(s, m, d) == [success |-> s, message |-> m, data |-> d]

\* response = {"success": result.success, "message": result.message};
\* if result.data: response["data"] = result.data
ResponseOf(result) == Response(result.success, result.message, result.data)

\* A run of a tool: what it returns ("dict", or "raise" when an exception
\* leaves it), its response, the calls made and the document state left.
Served(v, response, run) ==
    [ret |-> v, result |-> response, trace |-> run.trace, doc |-> run.doc,
     sketch |-> run.sketch]

\* A caller that is ready calls tool o with the arguments a; it executes as
\* `run`.
Serve(c, o, a, run) ==
    /\ Ready(c)
    /\ pc' = pc
    /\ op' = [op EXCEPT ![c] = o]
    /\ ret' = [ret EXCEPT ![c] = run.ret]
    /\ trace' = [trace EXCEPT ![c] = run.trace]
    /\ res' = [res EXCEPT ![c] = run.result]
    /\ args' = [args EXCEPT ![c] = a]
    /\ sent' = [sent EXCEPT ![c] = <<>>]
    /\ doc_open' = run.doc
    /\ sketch_active' = run.sketch
    /\ nok' = 0 /\ lost' = "no"
    /\ overlap' = (overlap \/ Overlaps(c))
    /\ UNCHANGED <<app, is_conn, conf, tmo, elapsed>>

\* The runs of the draw_spline tool given `points`: the exception of
\* float() leaves the tool; an error of _normalize_points is answered at
\* once; otherwise draw_spline_operation is called (line 333) with the
\* parsed points.
DrawSplineToolRuns(points) ==
    LET n == NormalizePoints(points) IN
    IF n.raised
      THEN {Served("raise", Response(FALSE, Msg(""), <<>>), Run(NoResult, <<>>))}
    ELSE IF n.error # ""
      THEN {Served("dict", Response(FALSE, Msg(n.error), <<>>), Run(NoResult, <<>>))}
      ELSE {Served("dict", ResponseOf(r.result),
                   [r EXCEPT !.trace = <<Ev("draw_spline_operation", 333, TRUE)>> \o @]) :
               r \in DrawSplineRuns(n.parsed)}

\* draw_spline(points), the tool
DrawSplineTool(c) ==
    /\ Ready(c)
    /\ \E points \in PointLists : \E run \in DrawSplineToolRuns(points) :
       Serve(c, "draw_spline_tool", [points |-> points], run)

(***************************************************************************)
(* The tools and resources of the MCP server. A tool builds a mapping from *)
(* the OperationResult it gets; the tools that attach a screenshot call    *)
(* capture_screenshot() afterwards, in the state the operation has left.   *)
(* A plane name is the sequence of its characters.                         *)
(***************************************************************************)
PlaneNames ==
    {<<>>, <<"F", "r", "o", "n", "t">>,
     <<" ", "t", "o", "p", " ", "p", "l", "a", "n", "e", " ">>,
     <<"R", "I", "G", "H", "T">>,
     <<"r", "i", "g", "h", "t", " ", "p", "l", "a", "n", "e">>,
     <<"T", "o", "p", "\t">>,
     <<"f", "r", "o", "n", "t", " ", " ", "p", "l", "a", "n", "e">>,
     <<"s", "i", "d", "e">>,
     <<" ">>,
     <<"f", "r", "o", "n", "t", "p", "l", "a", "n", "e">>,
     <<"R", "i", "g", "h", "t", " ", "P", "l", "a", "n", "e">>}

\* str.lower(), on the characters that occur
Lower(s) ==
    [i \in 1..Len(s) |->
        IF \E k \in 1..Len(Uppercase) : Uppercase[k] = s[i]
          THEN Lowercase[CHOOSE k \in 1..Len(Uppercase) : Uppercase[k] = s[i]]
          ELSE s[i]]

Whitespace == {" ", "\t"}

\* str.strip(): without the whitespace at both ends
RECURSIVE Strip(_)
Strip(s) ==
    IF s = <<>> THEN s
    ELSE IF Head(s) \in Whitespace THEN Strip(Tail(s))
    ELSE IF s[Len(s)] \in Whitespace THEN Strip(SubSeq(s, 1, Len(s) - 1))
    ELSE s

\* plane_map
plane_map ==
    (<<"f", "r", "o", "n", "t">> :> "Front Plane") @@ (<<"f", "r", "o", "n", "t", " ", "p", "l", "a", "n", "e">> :> "Front Plane")
    @@ (<<"t", "o", "p">> :> "Top Plane") @@ (<<"t", "o", "p", " ", "p", "l", "a", "n", "e">> :> "Top Plane")
    @@ (<<"r", "i", "g", "h", "t">> :> "Right Plane") @@ (<<"r", "i", "g", "h", "t", " ", "p", "l", "a", "n", "e">> :> "Right Plane")

\* (fault) the name is looked up as it was given
AsGiven(plane) == plane

\* normalized = plane.strip().lower()
Normalized(plane) == Lower(Strip(plane))

\* _parse_plane(plane): (plane_type, error)
_parse_plane(plane) ==
    IF plane = <<>>
      THEN [plane_type |-> "None", error |-> "plane is required. Use Front, Top, or Right."]
    ELSE IF Normalized(plane) \notin DOMAIN plane_map
      THEN [plane_type |-> "None", error |-> "Invalid plane. Use Front, Top, or Right."]
    ELSE [plane_type |-> plane_map[Normalized(plane)], error |-> "None"]

\* response = {"success": result.success, "message": result.message}
Answer(result) == [success |-> result.success, message |-> result.message]

\* response[key] = value
With(response, key, value) == (key :> value) @@ response

\* if result.feature_name: response[key] = result.feature_name
WithFeature(response, key, result) ==
    IF result.feature_name # <<>> THEN With(response, key, result.feature_name[1])
    ELSE response

\* if result.data: response["data"] = result.data
WithData(response, result) ==
    IF result.data # <<>> THEN With(response, "data", result.data[1]) ELSE response

\* the response of extrude, fillet and chamfer before the screenshot
FeatureResponse(result) == WithData(WithFeature(Answer(result), "feature", result), result)

\* if screenshot_result.success and screenshot_result.data:
\*     response["screenshot"] = screenshot_result.data
WithScreenshot(response, shot) ==
    IF shot.success /\ shot.data # <<>> THEN With(response, "screenshot", shot.data[1])
    ELSE response

\* The tools that attach a screenshot, and the line of each one's call of
\* capture_screenshot().
ShotLine ==
    [create_new_part |-> 59, close_sketch |-> 135, extrude_tool |-> 76,
     fillet_tool |-> 118, chamfer_tool |-> 161]

\* What a tool has done when the operation `o` it called at `line` with the
\* arguments a has run as `run`: the response built so far, and whether the
\* tool goes on to take the screenshot.
ToolStep(o, line, a, run, response, shot) ==
    [response |-> response, trace |-> <<Ev(o, line, TRUE)>> \o run.trace,
     doc |-> run.doc, sketch |-> run.sketch, shot |-> shot,
     sent |-> Forwarded(o, a, run.trace)]

\* return {"success": False, "message": text}, before any operation is called
Rejection(text) ==
    [response |-> [success |-> FALSE, message |-> Msg(text)], trace |-> <<>>,
     doc |-> doc_open, sketch |-> sketch_active, shot |-> FALSE, sent |-> <<>>]

\* save_part(file_path)
SavePartSteps(file_path) ==
    IF file_path = <<>>
      THEN {Rejection("file_path is required. Provide a full path like 'C:\\parts\\mypart.SLDPRT'")}
      ELSE {ToolStep("save_document", 99, [file_path |-> file_path], run,
                     IF run.result.success /\ run.result.data # <<>>
                       THEN With(Answer(run.result), "path", run.result.data[1].path)
                       ELSE Answer(run.result),
                     FALSE) : run \in SaveDocumentRuns(file_path)}

\* create_sketch(plane), the tool
CreateSketchSteps(plane) ==
    LET parsed == _parse_plane(plane) IN
    IF parsed.error # "None" \/ parsed.plane_type = "None"
      THEN {Rejection(parsed.error)}
      ELSE {ToolStep("create_sketch", 100, [plane |-> parsed.plane_type, name |-> plane], run,
                     WithFeature(Answer(run.result), "sketch", run.result), FALSE) :
               run \in CreateSketchRuns(parsed.plane_type)}

\* close_sketch()
CloseSketchSteps ==
    {ToolStep("exit_sketch", 128, NoArgs, run,
              WithFeature(Answer(run.result), "sketch", run.result),
              ShotTaken("close_sketch", run.result)) : run \in ExitSketchRuns}

\* extrude(depth, operation, direction), the tool
ExtrudeToolSteps(depth, operation, direction) ==
    IF operation \notin {"boss", "cut"}
      THEN {Rejection("operation must be 'boss' or 'cut'. Got: {operation}")}
    ELSE IF direction \notin {"forward", "backward", "both"}
      THEN {Rejection("direction must be 'forward', 'backward', or 'both'. Got: {direction}")}
    ELSE {ToolStep("extrude", 65,
                   [depth |-> depth, operation |-> operation, direction |-> direction], run,
                   FeatureResponse(run.result), ShotTaken("extrude_tool", run.result)) :
             run \in ExtrudeRuns(depth, operation, direction)}

\* fillet(radius), the tool
FilletToolSteps(radius, bodies) ==
    {ToolStep("fillet", 107, [radius |-> radius, bodies |-> bodies], run,
              FeatureResponse(run.result), ShotTaken("fillet_tool", run.result)) :
        run \in FilletRunsOn(radius, bodies)}

\* chamfer(distance), the tool
ChamferToolSteps(distance, bodies) ==
    {ToolStep("chamfer", 150, [distance |-> distance, bodies |-> bodies], run,
              FeatureResponse(run.result), ShotTaken("chamfer_tool", run.result)) :
        run \in ChamferRunsOn(distance, bodies)}

\* A value that may be None in a resource's mapping: <<>> for None.
Payloads(v) == IF v = "None" THEN <<>> ELSE <<v>>

\* (fault) the model state resource reports a failure without its message
ModelStateResponseWithoutMessage(result) ==
    IF result.success /\ result.data # <<>>
      THEN [success |-> TRUE, model_state |-> Payloads(result.data[1].model_state)]
      ELSE [success |-> FALSE, model_state |-> <<>>]

\* model_state_resource(): the mapping made of get_model_state()'s result
ModelStateResponse(result) ==
    IF result.success /\ result.data # <<>>
      THEN [success |-> TRUE, model_state |-> Payloads(result.data[1].model_state)]
      ELSE [success |-> FALSE, message |-> result.message, model_state |-> <<>>]

\* screenshot_resource(): the mapping made of capture_screenshot()'s result
ScreenshotResponse(result) ==
    IF result.success
      THEN [success |-> TRUE, message |-> result.message,
            viewport |-> IF result.data # <<>> THEN result.data
                         ELSE <<[view |-> "isometric", fit |-> TRUE]>>]
      ELSE [success |-> FALSE, message |-> result.message, viewport |-> <<>>]

ModelStateResourceSteps ==
    {ToolStep("get_model_state", 37, NoArgs, run, ModelStateResponse(run.result), FALSE) :
        run \in GetModelStateRuns}

ScreenshotResourceSteps ==
    {ToolStep("capture_screenshot", 39, NoArgs, run, ScreenshotResponse(run.result), FALSE) :
        run \in CaptureScreenshotRuns}

\* The tool or resource `tool`, called with the arguments a, does `step` and
\* returns its mapping, unless the screenshot is still to be taken.
Attend(c, tool, a, step) ==
    /\ Ready(c)
    /\ pc' = [pc EXCEPT ![c] = IF step.shot THEN "t_shot" ELSE "idle"]
    /\ op' = [op EXCEPT ![c] = tool]
    /\ ret' = [ret EXCEPT ![c] = IF step.shot THEN "-" ELSE "dict"]
    /\ trace' = [trace EXCEPT ![c] = step.trace]
    /\ res' = [res EXCEPT ![c] = step.response]
    /\ args' = [args EXCEPT ![c] = a]
    /\ sent' = [sent EXCEPT ![c] = step.sent]
    /\ doc_open' = step.doc
    /\ sketch_active' = step.sketch
    /\ nok' = 0 /\ lost' = "no"
    /\ overlap' = (overlap \/ Overlaps(c))
    /\ UNCHANGED <<app, is_conn, conf, tmo, elapsed>>

\* screenshot_result = capture_screenshot(); ...; return response
TakeScreenshot(c) ==
    /\ pc[c] = "t_shot"
    /\ \E run \in CaptureScreenshotRuns :
        /\ trace' = [trace EXCEPT ![c] =
                        @ \o <<Ev("capture_screenshot", ShotLine[op[c]], TRUE)>> \o run.trace]
        /\ res' = [res EXCEPT ![c] = WithScreenshot(@, run.result)]
    /\ Return(c, "dict")
    /\ UNCHANGED <<app, is_conn, conf, appstate, op, tmo, elapsed, nok, lost, overlap,
                   args, sent>>

\* create_new_part(template_path): result = create_new_document(template_path)
StartCreateNewPart(c) ==
    /\ op[c] = "-"
    /\ Begin(c, "create_new_part")
    /\ Goto(c, IF IsConnected THEN "nd_body" ELSE "c_check")
    /\ tmo' = [tmo EXCEPT ![c] = 0]
    /\ UNCHANGED <<app, is_conn, conf, elapsed, appstate>>

SavePart(c) ==
    /\ Ready(c)
    /\ \E file_path \in Paths : \E step \in SavePartSteps(file_path) :
       Attend(c, "save_part", [file_path |-> file_path], step)

CreateSketchTool(c) ==
    /\ Ready(c)
    /\ \E plane \in PlaneNames : \E step \in CreateSketchSteps(plane) :
       Attend(c, "create_sketch_tool", [plane |-> plane], step)

CloseSketch(c) ==
    /\ Ready(c)
    /\ \E step \in CloseSketchSteps : Attend(c, "close_sketch", NoArgs, step)

ExtrudeTool(c) ==
    /\ Ready(c)
    /\ \E depth \in Lengths, operation \in Operations, direction \in Directions :
       \E step \in ExtrudeToolSteps(depth, operation, direction) :
       Attend(c, "extrude_tool",
              [depth |-> depth, operation |-> operation, direction |-> direction], step)

FilletTool(c) ==
    /\ Ready(c)
    /\ \E radius \in Lengths, bodies \in BodyLists :
       \E step \in FilletToolSteps(radius, bodies) :
       Attend(c, "fillet_tool", [radius |-> radius, bodies |-> bodies], step)

ChamferTool(c) ==
    /\ Ready(c)
    /\ \E distance \in Lengths, bodies \in BodyLists :
       \E step \in ChamferToolSteps(distance, bodies) :
       Attend(c, "chamfer_tool", [distance |-> distance, bodies |-> bodies], step)

ModelStateResource(c) ==
    /\ Ready(c)
    /\ \E step \in ModelStateResourceSteps : Attend(c, "model_state_resource", NoArgs, step)

ScreenshotResource(c) ==
    /\ Ready(c)
    /\ \E step \in ScreenshotResourceSteps : Attend(c, "screenshot_resource", NoArgs, step)

(***************************************************************************)
(* One caller using the operations layer and the draw_spline tool on the   *)
(* process-wide manager; the manager's own methods are called next to them.*)
(***************************************************************************)
NextOps ==
    \/ StartConnect("main")
    \/ ConnectStep("main")
    \/ StartDisconnect("main")
    \/ DisconnectStep("main")
    \/ CheckConnection("main")
    \/ StartCreateNewDocument("main")
    \/ NewDocumentRefused("main")
    \/ NewDocumentBody("main")
    \/ SaveDocument("main")
    \/ SelectPlane("main")
    \/ InsertSketch("main")
    \/ CreateSketch("main")
    \/ ExitSketch("main")
    \/ DrawRectangle("main")
    \/ DrawCircle("main")
    \/ DrawLine("main")
    \/ DrawArc("main")
    \/ DrawPolygon("main")
    \/ DrawSpline("main")
    \/ Extrude("main")
    \/ Fillet("main")
    \/ Chamfer("main")
    \/ CaptureScreenshot("main")
    \/ GetModelState("main")
    \/ DrawSplineTool("main")
    \/ MmToM("main")
    \/ MToMm("main")
    \/ TakeResult("main")

SpecOps == Init /\ [][NextOps]_vars

(***************************************************************************)
(* One caller using the tools and the resources of the server on the       *)
(* process-wide manager.                                                   *)
(***************************************************************************)
NextTools ==
    \/ StartConnect("main")
    \/ ConnectStep("main")
    \/ StartDisconnect("main")
    \/ DisconnectStep("main")
    \/ StartCreateNewPart("main")
    \/ NewDocumentRefused("main")
    \/ NewDocumentBody("main")
    \/ SavePart("main")
    \/ CreateSketchTool("main")
    \/ CloseSketch("main")
    \/ ExtrudeTool("main")
    \/ FilletTool("main")
    \/ ChamferTool("main")
    \/ TakeScreenshot("main")
    \/ ModelStateResource("main")
    \/ ScreenshotResource("main")
    \/ TakeResult("main")

SpecTools == Init /\ [][NextTools]_vars

(***************************************************************************)
(* The server's lifespan (core/mcp_server.py): connect() on startup, the   *)
(* context yielded to the host, disconnect() in the finally block. While   *)
(* the host runs the body, its handlers use the process-wide manager: the  *)
(* caller "other" checks the connection and disconnects, one call at a     *)
(* time.                                                                   *)
(***************************************************************************)

\* async with forgeai_lifespan(server): ... connection.connect()
StartLifespan(c) ==
    /\ op[c] = "-"
    /\ Begin(c, "lifespan")
    /\ Goto(c, "c_check")
    /\ tmo' = [tmo EXCEPT ![c] = 0]
    /\ UNCHANGED <<app, is_conn, conf, elapsed, appstate>>

\* logger.info("Connected to SolidWorks")
LifespanConnected(c) ==
    /\ pc[c] = "ls_connected"
    /\ Log(c, "info", 57, TRUE)
    /\ Goto(c, "ls_yield")
    /\ UNCHANGED <<app, is_conn, conf, hist, appstate, op, ret, tmo, elapsed>>

\* (fault) a failed connect() ends the lifespan
ShutDownAfterWarning == "d_test"

\* Where the lifespan goes on after the warning: to the yield.
AfterWarning == "ls_yield"

\* logger.warning("Could not connect to SolidWorks. ...")
LifespanWarning(c) ==
    /\ pc[c] = "ls_warning"
    /\ Log(c, "warning", 59, TRUE)
    /\ Goto(c, AfterWarning)
    /\ UNCHANGED <<app, is_conn, conf, hist, appstate, op, ret, tmo, elapsed>>

\* yield ForgeAIContext(connection=connection)
LifespanYield(c) ==
    /\ pc[c] = "ls_yield"
    /\ Log(c, "yield", 65, TRUE)
    /\ Goto(c, "ls_body")
    /\ UNCHANGED <<app, is_conn, conf, hist, appstate, op, ret, tmo, elapsed>>

\* The body of the lifespan is running.
Serving == pc["main"] = "ls_body"

\* The body ends, normally (ok) or with an exception, which is raised at the
\* yield; the finally block begins: connection.disconnect()
LifespanShutdown(c) ==
    /\ pc[c] = "ls_body"
    /\ \A d \in Callers \ {c} : pc[d] = "idle"
    /\ \E ok \in BOOLEAN : Log(c, "body", 65, ok)
    /\ Goto(c, "d_test")
    /\ UNCHANGED <<app, is_conn, conf, hist, appstate, op, ret, tmo, elapsed>>

Lifespan(c) ==
    \/ StartLifespan(c)
    \/ LifespanConnected(c)
    \/ LifespanWarning(c)
    \/ LifespanYield(c)
    \/ LifespanShutdown(c)

NextServer ==
    \/ Lifespan("main")
    \/ ConnectStep("main")
    \/ DisconnectStep("main")
    \/ TakeResult("main")
    \/ (Serving /\ StartDisconnect("other"))
    \/ (Serving /\ DisconnectStep("other"))
    \/ (Serving /\ CheckConnection("other"))

SpecServer == Init /\ [][NextServer]_vars

(***************************************************************************)
(* Two callers on one manager: "main" calls connect() once, "other" calls  *)
(* disconnect() once, and the interpreter may switch between them after    *)
(* any statement. The manager starts in any state a single caller leaves   *)
(* it in: fresh or disconnected, connected, or holding a handle with the   *)
(* flag lowered by a failed check_connection().                            *)
(***************************************************************************)
ManagerStates == {<<NoApp, FALSE>>, <<Handle, TRUE>>, <<Handle, FALSE>>}

InitRace ==
    /\ \E m \in ManagerStates : app = m[1] /\ is_conn = m[2]
    /\ auto_launch \in BOOLEAN
    /\ visible \in BOOLEAN
    /\ cfg_timeout \in 1..MaxTimeout
    /\ pc = [c \in Callers |-> "idle"]
    /\ op = [c \in Callers |-> "-"]
    /\ ret = [c \in Callers |-> "-"]
    /\ tmo = [c \in Callers |-> 0]
    /\ elapsed = [c \in Callers |-> 0]
    /\ trace = [c \in Callers |-> <<>>]
    /\ nok = 0
    /\ lost = "no"
    /\ overlap = FALSE
    /\ res = [c \in Callers |-> NoResult]
    /\ args = [c \in Callers |-> NoArgs]
    /\ sent = [c \in Callers |-> <<>>]
    /\ doc_open = FALSE
    /\ sketch_active = FALSE

RaceConnect == op["main"] = "-" /\ StartConnect("main")

RaceDisconnect == op["other"] = "-" /\ StartDisconnect("other")

NextRace ==
    \/ RaceConnect
    \/ ConnectStep("main")
    \/ RaceDisconnect
    \/ DisconnectStep("other")

SpecRace == InitRace /\ [][NextRace]_vars

(***************************************************************************)
(* Properties.                                                             *)
(***************************************************************************)

\* The running (or last) call of caller c made `call` at source line `line`.
Has(c, call, line) ==
    \E i \in DOMAIN trace[c] : trace[c][i].call = call /\ trace[c][i].line = line

\* ... and it succeeded (ok = TRUE) or raised (ok = FALSE).
HasOk(c, call, line, ok) ==
    \E i \in DOMAIN trace[c] : trace[c][i] = Ev(call, line, ok)

\* Caller c has finished a call of method o.
Finished(c, o) == pc[c] = "idle" /\ op[c] = o

\* C1: while the probe of check_connection() succeeds the call returns True and
\* the manager stays connected; the first call whose probe raises returns False
\* (it does not raise) and leaves the manager disconnected; the connect() that
\* follows does not take the "already connected" shortcut: it runs the adopt
\* step, and the launch step too when adoption fails and auto-launch is on.
C1_ProbeLossThenFullConnect ==
    /\ (Finished("main", "check_connection") /\ trace["main"] # <<>>) =>
          IF trace["main"][1].ok
            THEN ret["main"] = "True" /\ IsConnected /\ nok >= 1 /\ lost = "no"
            ELSE ret["main"] = "False" /\ ~IsConnected /\ lost = "lost"
    /\ lost = "lost" => Finished("main", "check_connection") /\ ~IsConnected
    /\ lost = "retry" =>
          /\ op["main"] = "connect"
          /\ ~Has("main", "already", 55)
          /\ pc["main"] = "idle" =>
                /\ Has("main", "Dispatch", 81)
                /\ (auto_launch /\ ~HasOk("main", "RevisionNumber", 87, TRUE))
                      => Has("main", "Dispatch", 110)

\* C1's case: MaxChecks successful checks, then a failing one, then a connect()
\* that adopted nothing and launched a new instance.
C1_Witness ==
    /\ lost = "retry" /\ nok = MaxChecks
    /\ Finished("main", "connect") /\ ret["main"] = "True"
    /\ HasOk("main", "RevisionNumber", 118, TRUE)

\* C2: connect() on a disconnected manager: if the adopt probe (line 84) on the
\* fresh handle succeeds, connect() returns True and the manager is connected; if
\* it fails and auto-launch is off, connect() returns False, no handle is kept
\* and no launch is attempted.
C2_AdoptOrFail ==
    (Finished("main", "connect") /\ Has("main", "connect", 58)) =>
        /\ HasOk("main", "RevisionNumber", 84, TRUE) =>
              ret["main"] = "True" /\ IsConnected
        /\ (~HasOk("main", "RevisionNumber", 84, TRUE) /\ ~auto_launch) =>
              /\ ret["main"] = "False"
              /\ app = NoApp /\ ~is_conn
              /\ ~Has("main", "Dispatch", 110)

\* The statements of the polling loop's body.
LoopBody == {"loop_probe", "loop_visible", "loop_frame", "loop_set", "loop_sleep"}

\* C3: connect() terminates; the body of the polling loop runs only while the
\* timeout has not elapsed; and when the launched instance never answers the
\* probe, connect() returns False after the timeout with the handle cleared and
\* the flag down, a state from which connect() runs in full again.
C3_LaunchTimesOut ==
    /\ [](pc["main"] \in LoopBody => elapsed["main"] < tmo["main"])
    /\ []( ( /\ Finished("main", "connect")
             /\ HasOk("main", "Dispatch", 110, TRUE)
             /\ ~HasOk("main", "RevisionNumber", 118, TRUE) )
           => ( /\ ret["main"] = "False"
                /\ elapsed["main"] >= tmo["main"]
                /\ app = NoApp /\ ~is_conn /\ ~IsConnected ) )
    /\ (pc["main"] = "c_check") ~> (pc["main"] = "idle")

\* C3's case: adoption failed, the launched instance never answered and
\* connect() gave up after sleeping.
C3_Witness ==
    /\ Finished("main", "connect")
    /\ HasOk("main", "Dispatch", 110, TRUE)
    /\ ~HasOk("main", "RevisionNumber", 118, TRUE)
    /\ Has("main", "sleep", 136)
    /\ ret["main"] = "False" /\ app = NoApp

\* C4: reconnect() first runs disconnect() and only then connect(): connect()
\* starts with no handle and the flag down, never takes the "already connected"
\* shortcut, and returns what connect() returns from the disconnected state.
C4_ReconnectFromDisconnected ==
    op["main"] = "reconnect" =>
        /\ trace["main"] # <<>> => trace["main"][1] = Ev("disconnect", 154, TRUE)
        /\ pc["main"] = "c_check" => app = NoApp /\ ~is_conn
        /\ ~Has("main", "already", 55)
        /\ pc["main"] = "idle" =>
              /\ Has("main", "connect", 58)
              /\ Has("main", "Dispatch", 81)
              /\ ret["main"] \in {"True", "False"}
              /\ ret["main"] = "True" <=> IsConnected
              /\ ret["main"] = "False" => app = NoApp /\ ~is_conn

\* C4's case: reconnect() on a connected manager released the handle and, the
\* application being gone, reported failure instead of "already connected".
C4_Witness ==
    /\ Finished("main", "reconnect")
    /\ Has("main", "del", 157)
    /\ ret["main"] = "False"

\* C5: after disconnect() the manager has no handle and the flag is down,
\* whatever the state before, and disconnect() does not raise; on a manager
\* that is already disconnected it changes nothing.
C5_DisconnectIdempotent ==
    [][ /\ (op'["main"] = "disconnect" /\ pc["main"] # "idle" /\ pc'["main"] = "idle")
            => (app' = NoApp /\ ~is_conn' /\ ret'["main"] = "None")
        /\ (op["main"] = "disconnect" /\ pc["main"] = "d_test" /\ ~IsConnected
              /\ app = NoApp)
            => (app' = app /\ is_conn' = is_conn /\ pc'["main"] = "idle"
                  /\ ret'["main"] = "None")
      ]_vars

\* C5's case: a disconnect() that found no handle and returned at once.
C5_Witness ==
    /\ Finished("main", "disconnect")
    /\ trace["main"] = <<Ev("disconnect", 154, TRUE)>>
    /\ app = NoApp /\ ~is_conn

\* C6: in the launch path, once the readiness probe (line 118) has succeeded, a
\* failure to set Visible or FrameState is not fatal: connect() returns True
\* and the manager is connected.
C6_PreferencesBestEffort ==
    ( /\ Finished("main", "connect")
      /\ HasOk("main", "RevisionNumber", 118, TRUE)
      /\ (HasOk("main", "Visible", 122, FALSE) \/ HasOk("main", "FrameState", 127, FALSE)) )
    => (ret["main"] = "True" /\ IsConnected)

\* The methods that only read the liveness state.
Readers == {"is_connected", "get_version", "get_active_doc"}

\* C7: is_connected, get_version() and get_active_doc() change neither the
\* handle nor the connected flag, in any state, and when the application call
\* raises they return None.
C7_ReadsHaveNoEffect ==
    [][ (pc["main"] = "idle" /\ pc'["main"] = "idle" /\ op'["main"] \in Readers
          /\ <<op, ret, trace>>' # <<op, ret, trace>>)
        => /\ app' = app /\ is_conn' = is_conn
           /\ ret'["main"] # "raise"
           /\ (trace'["main"] # <<>> /\ ~trace'["main"][1].ok) => ret'["main"] = "None"
      ]_vars

\* C7's case: get_version() on a connected manager whose application raised.
C7_Witness ==
    /\ Finished("main", "get_version")
    /\ trace["main"] = <<Ev("RevisionNumber", 227, FALSE)>>
    /\ ret["main"] = "None"
    /\ IsConnected

\* Both calls of the race have returned (or raised).
RaceOver == Finished("main", "connect") /\ Finished("other", "disconnect")

\* What the two calls leave: connect()'s result, the handle reference, the flag.
Outcome == <<ret["main"], app, is_conn>>

\* What the two sequential orders can leave. connect() then disconnect():
\* connect() returns True or False and disconnect() clears the manager;
\* disconnect() then connect(): connect() starts from the cleared manager and
\* ends connected (True) or cleared (False).
SequentialOutcomes ==
    {<<"True", NoApp, FALSE>>, <<"False", NoApp, FALSE>>, <<"True", Handle, TRUE>>}

\* C8: the manager does not serialize connect() and disconnect(): while both
\* calls are in progress either caller can execute its next statement; calls
\* that do not overlap leave one of the sequential outcomes, and (the witness)
\* calls that overlap can leave an outcome that neither sequential order has.
C8_UnserializedRace ==
    /\ (pc["main"] # "idle" /\ pc["other"] # "idle") =>
          (ENABLED ConnectStep("main") /\ ENABLED DisconnectStep("other"))
    /\ (RaceOver /\ ~overlap) =>
          (Outcome \in SequentialOutcomes /\ ret["other"] = "None")

\* C8's case: disconnect() ran between the launch probe and the assignment of
\* the flag: connect() returned True and the manager holds no handle with the
\* flag up.
C8_Witness ==
    /\ RaceOver /\ overlap
    /\ Outcome \notin SequentialOutcomes
    /\ Outcome = <<"True", NoApp, TRUE>>

\* The operations of the operations layer.
OperationNames ==
    {"create_new_document", "save_document", "select_plane", "insert_sketch",
     "create_sketch", "exit_sketch", "draw_rectangle", "draw_circle", "draw_line",
     "draw_arc", "draw_polygon", "draw_spline", "extrude", "fillet", "chamfer",
     "capture_screenshot", "get_model_state"}

\* Caller "main" has an operation's result in hand.
OperationReturned == pc["main"] = "idle" /\ op["main"] \in OperationNames

\* C9 as stated: every OperationResult with success == false returned by an
\* operation has feature_name unset and data unset.
C9_FailureCarriesNothing ==
    (OperationReturned /\ ~res["main"].success) =>
        (res["main"].feature_name = <<>> /\ res["main"].data = <<>>)

\* C9 amended: every OperationResult with success == false returned by an
\* operation has feature_name unset, and data unset too, except that
\* get_model_state() failing for want of a connection or of an open document
\* returns data == {"model_state": None}.
C9_FailureCarriesNoFeature ==
    (OperationReturned /\ ~res["main"].success) =>
        /\ res["main"].feature_name = <<>>
        /\ IF op["main"] = "get_model_state" /\ res["main"].message.e = <<>>
             THEN /\ Len(res["main"].data) = 1
                  /\ res["main"].data[1] = [model_state |-> "None"]
             ELSE res["main"].data = <<>>

\* C9's case: extrude() created the feature and failed while reading its name:
\* the failure carries neither the feature's name nor the extrusion's data.
C9_Witness ==
    /\ Finished("main", "extrude")
    /\ HasOk("main", "FeatureExtrusion2", 889, TRUE)
    /\ HasOk("main", "Name", 941, FALSE)
    /\ ~res["main"].success
    /\ res["main"].feature_name = <<>> /\ res["main"].data = <<>>

\* The application calls made inside connect(), whose exceptions connect()
\* turns into its return value.
ConnectCalls == {"Dispatch", "RevisionNumber", "Visible", "FrameState"}

\* The calls whose exception is dropped where it occurs: the ActiveDoc read
\* (inside the connection), the rebuild, the two spline calls, the view
\* change, zoom and window handle of the screenshot, and the feature and
\* active-sketch enumeration of get_model_state().
Absorbed ==
    {<<"ActiveDoc", 210>>, <<"EditRebuild3", 107>>, <<"CreateSpline2", 761>>,
     <<"CreateSpline", 782>>, <<"ShowNamedView2", 1170>>, <<"ViewZoomtofit2", 1176>>,
     <<"GetHWnd", 1190>>, <<"FirstFeature", 1263>>, <<"SketchManager", 1294>>,
     <<"ActiveSketch", 1295>>, <<"Name", 1297>>}

\* The calls of the operation in hand that raised.
RaisedCalls ==
    {i \in DOMAIN trace["main"] :
        ~trace["main"][i].ok /\ trace["main"][i].call \notin ConnectCalls}

\* The result in hand is a failure whose message has the text of the exception
\* raised by call i.
ReportsException(i) ==
    /\ ~res["main"].success
    /\ res["main"].message.e = <<Exc(trace["main"][i].call, trace["main"][i].line)>>

\* C10 as stated: whenever a call made by an operation raises, the operation
\* returns (it does not raise) a failure whose message contains the exception
\* text.
C10_EveryExceptionReported ==
    OperationReturned =>
        /\ ret["main"] = "OperationResult"
        /\ \A i \in RaisedCalls : ReportsException(i)

\* C10 amended: no operation raises; whenever a call made by an operation
\* raises, other than the calls whose exception is dropped where it occurs
\* (Absorbed), the operation returns a failure whose message contains the
\* exception text.
C10_ExceptionsContained ==
    OperationReturned =>
        /\ ret["main"] = "OperationResult"
        /\ \A i \in RaisedCalls :
              <<trace["main"][i].call, trace["main"][i].line>> \notin Absorbed
                  => ReportsException(i)

\* C10's case: the entity-creation call of draw_circle() raised and the
\* operation returned the failure with the exception's text.
C10_Witness ==
    /\ Finished("main", "draw_circle")
    /\ HasOk("main", "CreateCircleByRadius", 500, FALSE)
    /\ ~res["main"].success
    /\ res["main"].message = MsgE("Failed to draw circle: {e}",
                                   Exc("CreateCircleByRadius", 500))

\* The operations that draw a sketch entity, and the calls that create one.
SketchEntityOps ==
    {"draw_rectangle", "draw_circle", "draw_line", "draw_arc", "draw_polygon",
     "draw_spline"}

EntityCalls ==
    {"CreateCenterRectangle", "CreateCornerRectangle", "CreateCircleByRadius",
     "CreateLine", "CreateArc", "CreatePolygon", "CreateSpline2", "CreateSpline"}

\* The arguments a of operation o do not pass its local validation.
Rejected(o, a) ==
    CASE o = "draw_rectangle" -> a.width <= 0 \/ a.height <= 0
      [] o = "draw_circle" -> a.radius <= 0
      [] o = "draw_polygon" -> a.sides < 3 \/ a.radius <= 0
      [] o = "draw_spline" -> a.npoints < 2
      [] o = "extrude" -> \/ a.depth <= 0
                          \/ a.operation \notin {"boss", "cut"}
                          \/ a.direction \notin {"forward", "backward", "both"}
      [] o = "fillet" -> a.radius <= 0
      [] o = "chamfer" -> a.distance <= 0
      [] OTHER -> FALSE

\* The messages of the local validations.
ValidationTexts ==
    {"Width and height must be positive. Got width={width}, height={height}",
     "Radius must be positive. Got radius={radius}",
     "Polygon must have at least 3 sides. Got sides={sides}",
     "Spline requires at least 2 points. Got {len(points)} points.",
     "Depth must be positive. Got depth={depth}",
     "Operation must be 'boss' or 'cut'. Got: {operation}",
     "Direction must be 'forward', 'backward', or 'both'. Got: {direction}",
     "Distance must be positive. Got distance={distance}"}

\* The messages of the three precondition checks.
NotConnected == Msg("Not connected to SolidWorks. Please connect first.")
NoDocument == Msg("No document is open. Use create_new_part() to create a new part first.")
NoSketchTexts ==
    {"No active sketch. Use create_sketch() to start a new sketch first.",
     "Failed to get active sketch: {e}"}

\* The calls of the three checks, in the order they are made.
CheckCalls == << <<"ActiveDoc", 210>>, <<"SketchManager", 91>>, <<"ActiveSketch", 92>> >>

\* The first n calls on record are the calls of the first n checks.
ChecksMade(t, n) ==
    /\ Len(t) >= n
    /\ \A i \in 1..n : t[i].call = CheckCalls[i][1] /\ t[i].line = CheckCalls[i][2]

\* A sketch-entity operation has returned: what its result and its calls say
\* about the order of the checks.
ChecksInOrder ==
    LET o == op["main"]
        t == trace["main"]
        r == res["main"]
    IN
    (OperationReturned /\ o \in SketchEntityOps) =>
        /\ Rejected(o, args["main"]) =>
              (~r.success /\ r.message.text \in ValidationTexts /\ t = <<>>)
        /\ ~Rejected(o, args["main"]) => r.message.text \notin ValidationTexts
        /\ r.message = NotConnected => t = <<>>
        /\ r.message = NoDocument => (Len(t) = 1 /\ ChecksMade(t, 1))
        /\ r.message.text \in NoSketchTexts =>
              /\ Len(t) \in {2, 3} /\ ChecksMade(t, Len(t)) /\ t[1].ok
              /\ ~r.success
        /\ \A i \in DOMAIN t : t[i].call \in EntityCalls =>
              (i > 3 /\ ChecksMade(t, 3) /\ \A j \in 1..3 : t[j].ok)

\* A sketch-entity operation is called: the check that fails first in the
\* state it is called in is the one its result names.
FirstFailingCheckNamed ==
    LET o == op'["main"]
        r == res'["main"]
    IN
    (op["main"] = "-" /\ o \in SketchEntityOps /\ ~Rejected(o, args'["main"])) =>
        /\ ~IsConnected => r.message = NotConnected
        /\ (IsConnected /\ ~doc_open) => r.message = NoDocument
        /\ (IsConnected /\ doc_open /\ ~sketch_active) =>
              /\ ~r.success
              /\ r.message = NoDocument \/ r.message.text \in NoSketchTexts
              /\ trace'["main"][1].ok => r.message.text \in NoSketchTexts

\* C11: in every sketch-entity operation the checks are local validation, then
\* connection, then open document, then active sketch; the failure returned
\* names the first check that fails, and after a failing check no later check
\* and no entity-creation call is made.
C11_ChecksShortCircuit == []ChecksInOrder /\ [][FirstFailingCheckNamed]_vars

\* C11's case: draw_polygon() with too few sides, called on a disconnected
\* manager, is refused for its sides and not for the missing connection.
C11_Witness ==
    /\ Finished("main", "draw_polygon")
    /\ args["main"].sides < 3
    /\ ~IsConnected
    /\ res["main"] = Failure(Msg("Polygon must have at least 3 sides. Got sides={sides}"))
    /\ trace["main"] = <<>>

\* What connect() leaves on record: its entry (the test of line 54, with the
\* outcome of lines 54, 55 or 58), the calls it makes on the application and
\* the naps of its polling loop.
ConnectEntry(e) == e.call \in {"connect", "already", "AttributeError"}

ConnectEntries(t) == {i \in DOMAIN t : ConnectEntry(t[i])}

InsideConnect(e) == ConnectEntry(e) \/ e.call \in ConnectCalls \cup {"sleep"}

\* The calls an operation makes itself, outside connect().
OwnCalls(t) == {i \in DOMAIN t : ~InsideConnect(t[i])}

FailedToConnect == Failure(Msg("Failed to connect to SolidWorks. Is it running?"))

\* Once a call of its own has raised, an operation neither enters connect()
\* nor makes that call again.
NothingRetried ==
    LET t == trace["main"] IN
    op["main"] \in OperationNames =>
        \A i \in OwnCalls(t) : ~t[i].ok =>
            \A j \in DOMAIN t : j > i =>
                (~InsideConnect(t[j]) /\ t[j].call # t[i].call)

\* connect() is entered by create_new_document() only, at most once, before
\* any call of its own; when it has returned False (the manager is still
\* disconnected) the operation returns its failure and has made no call of
\* its own.
CreationConnectsOnce ==
    LET t == trace["main"] IN
    /\ (op["main"] \in OperationNames \ {"create_new_document"}) => ConnectEntries(t) = {}
    /\ op["main"] = "create_new_document" =>
          /\ Cardinality(ConnectEntries(t)) <= 1
          /\ \A i \in ConnectEntries(t) : i = 1
          /\ (Finished("main", "create_new_document") /\ ConnectEntries(t) # {}
                /\ ~IsConnected) =>
                (res["main"] = FailedToConnect /\ OwnCalls(t) = {})

\* create_new_document() called on a disconnected manager enters connect().
CreationConnects ==
    (op["main"] = "-" /\ op'["main"] = "create_new_document" /\ ~IsConnected) =>
        pc'["main"] = "c_check"

\* pc = "c_check" is the entry of connect(): the step from it puts connect()
\* on record.
ConnectOnRecord ==
    (pc["main"] = "c_check" /\ pc'["main"] # "c_check") =>
        ConnectEntries(trace'["main"]) # {}

\* The step is a call of operation o on a disconnected manager.
CalledDisconnected(o) == op["main"] = "-" /\ op'["main"] = o /\ ~IsConnected

\* The call has touched neither the manager nor the application.
NothingTouched == trace'["main"] = <<>> /\ UNCHANGED <<app, is_conn, appstate>>

\* The call fails with 'Not connected'.
RefusedNotConnected == ~res'["main"].success /\ res'["main"].message = NotConnected

\* The call fails with the message of a local validation.
RefusedInvalid == ~res'["main"].success /\ res'["main"].message.text \in ValidationTexts

\* C12 as stated: only create_new_document() connects, once, and gives up when
\* that fails; every other operation called while disconnected fails with
\* 'Not connected' without a call; nothing is retried after a failed call.
C12_OnlyCreationConnects ==
    /\ [](NothingRetried /\ CreationConnectsOnce)
    /\ [][/\ CreationConnects /\ ConnectOnRecord
          /\ \A o \in OperationNames \ {"create_new_document"} :
                CalledDisconnected(o) => (RefusedNotConnected /\ NothingTouched)]_vars

\* C12 amended: the same, the other operations being called with arguments
\* that pass their local validation (rejected arguments are reported instead
\* of the missing connection, also without a call).
C12_OnlyCreationConnectsValid ==
    /\ [](NothingRetried /\ CreationConnectsOnce)
    /\ [][/\ CreationConnects /\ ConnectOnRecord
          /\ \A o \in OperationNames \ {"create_new_document"} :
                CalledDisconnected(o) =>
                    /\ NothingTouched
                    /\ IF Rejected(o, args'["main"])
                         THEN RefusedInvalid
                         ELSE RefusedNotConnected]_vars

\* C12's case: create_new_document() on a disconnected manager entered
\* connect() once, connect() looked for a running instance and failed, and
\* the operation returned its failure without asking for a document.
C12_Witness ==
    /\ Finished("main", "create_new_document")
    /\ Cardinality(ConnectEntries(trace["main"])) = 1
    /\ HasOk("main", "Dispatch", 81, FALSE)
    /\ res["main"] = FailedToConnect
    /\ ~Has("main", "NewDocument", 147)

\* The operations that take a length, radius, depth or distance.
LengthOps ==
    {"draw_rectangle", "draw_circle", "draw_polygon", "extrude", "fillet", "chamfer"}

\* One of the lengths in the arguments a of operation o is <= 0.
NonPositive(o, a) ==
    CASE o = "draw_rectangle" -> a.width <= 0 \/ a.height <= 0
      [] o \in {"draw_circle", "draw_polygon", "fillet"} -> a.radius <= 0
      [] o = "extrude" -> a.depth <= 0
      [] o = "chamfer" -> a.distance <= 0
      [] OTHER -> FALSE

\* The messages of the operations that contain the word "positive".
PositiveTexts ==
    {"Width and height must be positive. Got width={width}, height={height}",
     "Radius must be positive. Got radius={radius}",
     "Depth must be positive. Got depth={depth}",
     "Distance must be positive. Got distance={distance}"}

\* The result in hand is a failure without any call, with one of `texts`.
RejectedLocally(texts) ==
    /\ ~res["main"].success
    /\ res["main"].message.text \in texts
    /\ res["main"].message.e = <<>>
    /\ trace["main"] = <<>>

\* C13 as stated: an operation called with a length, radius, depth or distance
\* <= 0 fails with a message containing "positive" and makes no call, whatever
\* its other arguments and whatever the connection and document state.
C13_NonPositiveRejected ==
    (OperationReturned /\ op["main"] \in LengthOps
        /\ NonPositive(op["main"], args["main"])) => RejectedLocally(PositiveTexts)

\* C13 amended: the same, except that draw_polygon() called with sides < 3 as
\* well fails (also without a call) with the message about its sides, which
\* does not contain "positive".
C13_NonPositiveRejectedLocally ==
    (OperationReturned /\ op["main"] \in LengthOps
        /\ NonPositive(op["main"], args["main"])) =>
        IF op["main"] = "draw_polygon" /\ args["main"].sides < 3
          THEN RejectedLocally({"Polygon must have at least 3 sides. Got sides={sides}"})
          ELSE RejectedLocally(PositiveTexts)

\* C13's case: extrude() with depth 0 and an operation it does not know, on a
\* connected manager with a document open, is refused for its depth and has
\* made no call.
C13_Witness ==
    /\ Finished("main", "extrude")
    /\ args["main"].depth = 0 /\ args["main"].operation = "drill"
    /\ IsConnected /\ doc_open
    /\ RejectedLocally({"Depth must be positive. Got depth={depth}"})

\* The calls that change the document: entity creation, feature creation,
\* the sketch toggle, the save and the document creation.
MutationCalls ==
    EntityCalls \cup {"FeatureExtrusion2", "FeatureCut3", "FeatureFillet3",
                      "InsertFeatureChamfer", "InsertSketch", "SaveAs3", "NewDocument"}

\* The mutation calls of the operation in hand, in the order they were made.
Mutations == SelectSeq(trace["main"], LAMBDA e : e.call \in MutationCalls)

\* C14 as stated: an invocation of an operation makes at most one mutation
\* call on the application.
C14_OneMutation ==
    op["main"] \in OperationNames => Len(Mutations) <= 1

\* C14 amended: at most one mutation call, except that draw_rectangle() calls
\* CreateCornerRectangle after a CreateCenterRectangle that did not raise (it
\* returned nothing), and draw_spline() calls CreateSpline after a
\* CreateSpline2 that returned nothing or raised, always when it raised:
\* at most two calls, the second being the fallback of the first.
C14_OneMutationOrFallback ==
    LET m == Mutations IN
    op["main"] \in OperationNames =>
        /\ Len(m) <= 2
        /\ Len(m) = 2 =>
              \/ /\ op["main"] = "draw_rectangle"
                 /\ m[1] = Ev("CreateCenterRectangle", 438, TRUE)
                 /\ m[2].call = "CreateCornerRectangle"
              \/ /\ op["main"] = "draw_spline"
                 /\ m[1].call = "CreateSpline2" /\ m[2].call = "CreateSpline"
        /\ (OperationReturned /\ Len(m) = 1 /\ m[1].call = "CreateSpline2") => m[1].ok
        /\ (OperationReturned /\ Len(m) = 1
              /\ m[1].call \in {"CreateSpline2", "CreateCenterRectangle"} /\ m[1].ok) =>
              res["main"].success

\* C14's case: draw_rectangle() whose centre rectangle came back empty drew
\* the corner rectangle and succeeded with it.
C14_Witness ==
    /\ Finished("main", "draw_rectangle")
    /\ Len(Mutations) = 2
    /\ HasOk("main", "CreateCenterRectangle", 438, TRUE)
    /\ HasOk("main", "CreateCornerRectangle", 442, TRUE)
    /\ res["main"].success

\* C15: exit_sketch() called with a document open and no sketch active (and
\* no call raising) is a no-op success: it returns success with the generic
\* message and no feature_name, it does not call the sketch toggle
\* (InsertSketch), and the sketch state is what it was.
C15_CloseWithoutSketchIsNoOp ==
    [][(/\ op["main"] = "-" /\ op'["main"] = "exit_sketch"
        /\ IsConnected /\ doc_open /\ ~sketch_active
        /\ \A i \in DOMAIN trace'["main"] : trace'["main"][i].ok) =>
            /\ res'["main"] = OperationResult(TRUE, Msg("Exited sketch mode"), <<>>, <<>>)
            /\ \A i \in DOMAIN trace'["main"] : trace'["main"][i].call # "InsertSketch"
            /\ sketch_active' = sketch_active]_vars

\* The operations that rebuild the model, and the messages of a feature
\* operation whose feature-creation call returned no feature.
RebuildOps == {"exit_sketch", "extrude", "fillet", "chamfer"}

NoFeatureTexts ==
    {"Failed to create extrusion. Make sure a closed sketch profile exists.",
     "Failed to create fillet. Radius may be too large for edge geometry.",
     "Failed to create chamfer. Distance may be too large for edge geometry."}

\* Where the operation in hand asked for a rebuild.
Rebuilds == {i \in DOMAIN trace["main"] : trace["main"][i].call = "EditRebuild3"}

\* The rebuild is asked for once, right after the mutation call, when that
\* call was made and returned (for a feature: returned a feature), and not
\* otherwise; when the rebuild raised and nothing else did, the operation
\* succeeded, a feature operation with its feature_name and data.
RebuildFollowsMutation ==
    LET t == trace["main"] IN
    (OperationReturned /\ op["main"] \in RebuildOps) =>
        /\ Cardinality(Rebuilds) <= 1
        /\ \A i \in Rebuilds : i > 1 /\ t[i - 1].call \in MutationCalls /\ t[i - 1].ok
        /\ \A i \in DOMAIN t :
              (t[i].call \in MutationCalls /\ t[i].ok
                  /\ res["main"].message.text \notin NoFeatureTexts) => (i + 1) \in Rebuilds
        /\ (Rebuilds # {} /\ \A i \in DOMAIN t : ~t[i].ok <=> i \in Rebuilds) =>
              /\ res["main"].success
              /\ op["main"] # "exit_sketch" =>
                    (res["main"].feature_name # <<>> /\ res["main"].data # <<>>)

\* The runs of operation o called with the arguments a.
RunsOf(o, a) ==
    CASE o = "exit_sketch" -> ExitSketchRuns
      [] o = "extrude" -> ExtrudeRuns(a.depth, a.operation, a.direction)
      [] o = "fillet" -> FilletRuns(a.radius)
      [] o = "chamfer" -> ChamferRuns(a.distance)

\* The calls t, the rebuild having succeeded.
Rebuilt(t) ==
    [i \in DOMAIN t |-> IF t[i].call = "EditRebuild3" THEN [t[i] EXCEPT !.ok = TRUE] ELSE t[i]]

\* An operation whose rebuild raised ends as it can end, after the same
\* calls, when the rebuild succeeds: same result, same document state.
RebuildChangesNothing ==
    (/\ op["main"] = "-" /\ op'["main"] \in RebuildOps
     /\ \E i \in DOMAIN trace'["main"] : trace'["main"][i] = Ev("EditRebuild3", 107, FALSE)) =>
        \E run \in RunsOf(op'["main"], args'["main"]) :
            /\ run.trace = Rebuilt(trace'["main"])
            /\ run.result = res'["main"]
            /\ run.doc = doc_open' /\ run.sketch = sketch_active'

\* C16: exit_sketch, extrude, fillet and chamfer ask for a rebuild after their
\* mutation call and before returning, only when that call was made (and
\* returned a feature); a rebuild that raises does not change the outcome.
C16_RebuildAfterMutation == []RebuildFollowsMutation /\ [][RebuildChangesNothing]_vars

\* C16's case: fillet() created its feature, the rebuild raised, and the
\* operation returned success with the feature's name and the edge count.
C16_Witness ==
    /\ Finished("main", "fillet")
    /\ HasOk("main", "FeatureFillet3", 1018, TRUE)
    /\ HasOk("main", "EditRebuild3", 107, FALSE)
    /\ res["main"].success
    /\ res["main"].feature_name = <<"Feature1">>
    /\ res["main"].data # <<>>

\* The calls of a select_plane() that went through, all three having returned.
SelectCalls ==
    <<Ev("ActiveDoc", 210, TRUE), Ev("ClearSelection2", 245, TRUE),
      Ev("SelectByID2", 249, TRUE)>>

PlaneNotSelected == Msg("Failed to select {plane_name}. Plane may not exist.")

\* create_sketch() has returned. Whatever it did after the three calls of
\* select_plane() is insert_sketch(): it did so only after those three calls
\* returned, never when the plane was reported as not selected; and when it
\* stopped at select_plane() it returned a failure of select_plane().
InsertOnlyAfterSelect ==
    LET t == trace["main"]
        r == res["main"]
    IN
    Finished("main", "create_sketch") =>
        /\ Len(t) > 3 => (SubSeq(t, 1, 3) = SelectCalls /\ r.message # PlaneNotSelected)
        /\ \A i \in DOMAIN t :
              t[i].call \in {"InsertSketch", "ActiveSketch", "SketchManager"} => i > 3
        /\ Len(t) <= 3 =>
              /\ ~r.success
              /\ \/ r.message = NotConnected /\ t = <<>>
                 \/ r.message = NoDocument /\ Len(t) = 1 /\ ChecksMade(t, 1)
                 \/ r.message = PlaneNotSelected /\ t = SelectCalls
                 \/ /\ t # <<>> /\ ~t[Len(t)].ok /\ t[1].ok
                    /\ r.message = MsgE("Failed to select plane: {e}",
                                        Exc(t[Len(t)].call, t[Len(t)].line))
        /\ (t = SelectCalls /\ Len(t) = 3) => r.message = PlaneNotSelected

\* create_sketch(plane) ends as select_plane(plane) does when that fails:
\* same result, same calls, and the document as it was.
SelectFailureUnchanged ==
    (op["main"] = "-" /\ op'["main"] = "create_sketch" /\ Len(trace'["main"]) <= 3) =>
        /\ \E s \in SelectPlaneRuns(args'["main"].plane) :
              ~s.result.success /\ s.result = res'["main"] /\ s.trace = trace'["main"]
        /\ UNCHANGED <<app, is_conn, appstate>>

\* C17: create_sketch(plane) attempts insert_sketch() only if select_plane()
\* succeeded; when select_plane() fails its failure is returned unchanged and
\* the application's InsertSketch is never called.
C17_InsertOnlyAfterSelect == []InsertOnlyAfterSelect /\ [][SelectFailureUnchanged]_vars

\* C17's case: the application answered the selection but selected nothing:
\* create_sketch() returned select_plane()'s failure and went no further.
C17_Witness ==
    /\ Finished("main", "create_sketch")
    /\ trace["main"] = SelectCalls
    /\ res["main"] = Failure(PlaneNotSelected)
    /\ ~Has("main", "InsertSketch", 294)

\* C18: draw_polygon() with sides < 3 fails with the message about the three
\* sides and makes no call, whatever its radius and whatever the connection
\* and document state.
C18_TooFewSidesRejected ==
    (Finished("main", "draw_polygon") /\ args["main"].sides < 3) =>
        RejectedLocally({"Polygon must have at least 3 sides. Got sides={sides}"})

\* C18's case: a polygon of two sides and a valid radius, asked for in an
\* active sketch, is refused without a call.
C18_Witness ==
    /\ Finished("main", "draw_polygon")
    /\ args["main"].sides = 2 /\ args["main"].radius > 0
    /\ IsConnected /\ doc_open /\ sketch_active
    /\ RejectedLocally({"Polygon must have at least 3 sides. Got sides={sides}"})

\* A point the draw_spline tool is meant to accept: a mapping with both "x"
\* and "y", or a pair, of numbers.
WellFormed(point) ==
    /\ \/ point.kind = "dict" /\ {"x", "y"} \subseteq point.keys
       \/ point.kind = "list" /\ point.len = 2
    /\ point.numeric

\* The draw_spline tool called the operations layer.
OperationCalled == Has("main", "draw_spline_operation", 333)

\* C19: the draw_spline tool hands a point list on only when every point is a
\* mapping with "x" and "y" or a pair and there are at least two; any other
\* list is answered with success == false, not with an exception, and
\* without a call of the operations layer or the application.
C19_PointListValidated ==
    LET points == args["main"].points
        accepted == Len(points) >= 2 /\ \A i \in DOMAIN points : WellFormed(points[i])
    IN
    Finished("main", "draw_spline_tool") =>
        /\ ret["main"] = "dict"
        /\ OperationCalled => accepted
        /\ ~accepted => (~res["main"].success /\ trace["main"] = <<>>)

\* The number of edges of the bodies b, all taken together.
RECURSIVE TotalEdges(_)
TotalEdges(b) == IF b = <<>> THEN 0 ELSE b[1] + TotalEdges(Tail(b))

FeatureCreationCalls == {"FeatureFillet3", "InsertFeatureChamfer"}

\* The calls the operation in hand made that are named `call`.
Made(call) == {i \in DOMAIN trace["main"] : trace["main"][i].call = call}

\* Whether index i lies within the edges loop of body k: after the k-th
\* GetEdges and before the next.
OfBody(i, k) ==
    /\ Cardinality({g \in Made("GetEdges") : g < i}) = k

\* C20: fillet and chamfer with a valid length on an open document select
\* every edge of every solid body once (one GetEdges per body, one Select4 per
\* edge of that body) before their single feature-creation call, and a
\* success reports edge_count as the total number of edges; without a body,
\* or without an edge, they fail and make no feature-creation call.
C20_AllEdgesSelected ==
    LET b == args["main"].bodies
        t == trace["main"]
        created == UNION {Made(call) : call \in FeatureCreationCalls}
    IN
    (OperationReturned /\ op["main"] \in {"fillet", "chamfer"}) =>
        /\ Cardinality(created) <= 1
        /\ \A k \in created :
              /\ Cardinality(Made("GetEdges")) = Len(b)
              /\ \A n \in DOMAIN b :
                    Cardinality({i \in Made("Select4") : OfBody(i, n)}) = b[n]
              /\ \A i \in Made("GetEdges") \cup Made("Select4") : i < k /\ t[i].ok
        /\ res["main"].success =>
              /\ created # {}
              /\ res["main"].data[1].edge_count = TotalEdges(b)
              /\ Cardinality(Made("Select4")) = TotalEdges(b)
        /\ TotalEdges(b) = 0 => (~res["main"].success /\ created = {})

\* C20's case: fillet(10) on a document whose one body has 12 edges selected
\* the 12 edges and reports edge_count == 12.
C20_Witness ==
    /\ Finished("main", "fillet")
    /\ args["main"].bodies = <<12>>
    /\ Cardinality(Made("Select4")) = 12
    /\ HasOk("main", "FeatureFillet3", 1018, TRUE)
    /\ res["main"].success
    /\ res["main"].data[1].edge_count = 12

\* The path ends in ".SLDPRT", whatever the case of its letters.
HasExtension(path) ==
    /\ Len(path) >= Len(Extension)
    /\ \A i \in 1..Len(Extension) :
          Upper(<<path[Len(path) - Len(Extension) + i]>>) = <<Extension[i]>>

\* The paths the save_document in hand gave to SaveAs3.
SavedPaths ==
    {sent["main"][i].args.PathName : i \in {k \in DOMAIN sent["main"] : sent["main"][k].call = "SaveAs3"}}

\* C21: save_document(path) with a document open gives SaveAs3 one path, which
\* ends in ".SLDPRT" whatever the case of the letters: the given path with
\* ".SLDPRT" appended when it lacks the extension, the given path itself when
\* it ends in it (in any letter case); the extension added a second time
\* changes nothing; on success data["path"] is the path SaveAs3 was given.
C21_SavedPathHasExtension ==
    LET given == args["main"].file_path IN
    Finished("main", "save_document") =>
        /\ Has("main", "SaveAs3", 203) <=> Cardinality(SavedPaths) = 1
        /\ \A path \in SavedPaths :
              /\ HasExtension(path)
              /\ ~HasExtension(given) => path = given \o Extension
              /\ HasExtension(given) => path = given
              /\ WithExtension(path) = path
        /\ res["main"].success =>
              /\ SavedPaths # {}
              /\ \A path \in SavedPaths : res["main"].data[1].path = path

\* C21's case: a path that ends in ".sldprt" in lower case was saved as given.
C21_Witness ==
    /\ Finished("main", "save_document")
    /\ args["main"].file_path = <<"a", ".", "s", "l", "d", "p", "r", "t">>
    /\ SavedPaths = {<<"a", ".", "s", "l", "d", "p", "r", "t">>}
    /\ res["main"].success

\* The arguments the extrude in hand gave to its feature-creation call.
ExtrusionsSent ==
    {sent["main"][i].args :
        i \in {k \in DOMAIN sent["main"] :
                  sent["main"][k].call \in {"FeatureExtrusion2", "FeatureCut3"}}}

\* The depth of the extrude in hand, in metres.
DepthInMetres == Value(Product(Number(args["main"].depth), Given(MM_TO_M)))

\* C22: the feature-creation call of extrude is given, for direction "both",
\* the mid-plane end condition, the depth as its one depth, a second depth of
\* zero and no flip; for "forward" and "backward" the blind end condition with
\* the same depth and second depth, the flip flag set exactly for "backward";
\* FeatureExtrusion2 (boss) and FeatureCut3 (cut) are given the same.
C22_BothIsMidPlane ==
    LET a == args["main"] IN
    Finished("main", "extrude") =>
        /\ Cardinality(ExtrusionsSent) <= 1
        /\ (Has("main", "FeatureExtrusion2", 889) \/ Has("main", "FeatureCut3", 915))
              <=> ExtrusionsSent # {}
        /\ Has("main", "FeatureExtrusion2", 889) <=> (ExtrusionsSent # {} /\ a.operation = "boss")
        /\ Has("main", "FeatureCut3", 915) <=> (ExtrusionsSent # {} /\ a.operation = "cut")
        /\ \A x \in ExtrusionsSent :
              /\ x.Sd
              /\ x.T1 = (IF a.direction = "both" THEN SW_END_CONDITION_MID_PLANE
                                                 ELSE SW_END_CONDITION_BLIND)
              /\ x.T2 = 0
              /\ x.D1 = DepthInMetres
              /\ x.D2 = 0
              /\ x.Flip <=> a.direction = "backward"

\* C22's case: a cut in direction "both" was given the mid-plane end
\* condition and no flip.
C22_Witness ==
    /\ Finished("main", "extrude")
    /\ args["main"].direction = "both" /\ args["main"].operation = "cut"
    /\ \E x \in ExtrusionsSent :
          x.T1 = SW_END_CONDITION_MID_PLANE /\ ~x.Flip /\ x.D2 = 0 /\ x.D1 = DepthInMetres
    /\ res["main"].success

\* value * 0.001, for a number the caller gave in millimetres
Thousandth(value) == Value(Product(Number(value), Given(MM_TO_M)))

\* The numbers the caller gave in millimetres to operation o with a.
MillimetresGiven(o, a) ==
    IF o = "draw_rectangle" THEN {a.center_x, a.center_y, a.width, a.height}
    ELSE IF o = "draw_circle" THEN {a.center_x, a.center_y, a.radius}
    ELSE IF o = "draw_line" THEN {a.x1, a.y1, a.x2, a.y2}
    ELSE IF o = "draw_arc" THEN {a.center_x, a.center_y, a.start_x, a.start_y, a.end_x, a.end_y}
    ELSE IF o = "draw_polygon" THEN {a.center_x, a.center_y, a.radius}
    ELSE IF o = "draw_spline" THEN {a.points[i][j] : i \in DOMAIN a.points, j \in 1..2}
    ELSE IF o = "extrude" THEN {a.depth}
    ELSE IF o = "fillet" THEN {a.radius}
    ELSE IF o = "chamfer" THEN {a.distance}
    ELSE {}

\* The arguments of a call that are lengths or coordinates in metres, by the
\* parameter of the caller they are the conversion of.
Converted ==
    [CreateCenterRectangle |-> [Xc |-> "center_x", Yc |-> "center_y"],
     CreateCornerRectangle |-> <<>>,
     CreateCircleByRadius |-> [Xc |-> "center_x", Yc |-> "center_y", Radius |-> "radius"],
     CreateLine |-> [X1 |-> "x1", Y1 |-> "y1", X2 |-> "x2", Y2 |-> "y2"],
     CreateArc |-> [Xc |-> "center_x", Yc |-> "center_y", Xs |-> "start_x", Ys |-> "start_y",
                    Xe |-> "end_x", Ye |-> "end_y"],
     CreatePolygon |-> [Xc |-> "center_x", Yc |-> "center_y"],
     CreateSpline2 |-> <<>>, CreateSpline |-> <<>>, SaveAs3 |-> <<>>,
     SelectByID2 |-> <<>>,
     FeatureExtrusion2 |-> [D1 |-> "depth"], FeatureCut3 |-> [D1 |-> "depth"],
     FeatureFillet3 |-> [Radius |-> "radius"],
     InsertFeatureChamfer |-> [Width |-> "distance", OtherDist |-> "distance"]]

\* The arguments of a call that are computed from several converted values.
Computed ==
    [CreateCenterRectangle |-> {"Xp", "Yp"}, CreateCornerRectangle |-> {"X1", "Y1", "X2", "Y2"},
     CreatePolygon |-> {"Xv", "Yv"}]

\* The lengths and coordinates among the arguments of the call s.
MetresSent(s) ==
    {s.args[f] : f \in DOMAIN Converted[s.call]}
    \cup (IF s.call \in DOMAIN Computed THEN {s.args[f] : f \in Computed[s.call]} ELSE {})
    \cup (IF s.call \in {"CreateSpline2", "CreateSpline"}
            THEN {s.args.PointData[i] : i \in {k \in DOMAIN s.args.PointData : k % 3 # 0}}
            ELSE {})

\* x differs from v by at most |v| * 2^-52
Recovers(x, v) ==
    LET slack == IF v.man = <<>> THEN v ELSE [v EXCEPT !.neg = FALSE, !.exp = @ - 52]
        error == Minus(x, v)
    IN ~Minus(slack, [error EXCEPT !.neg = FALSE]).neg

\* C23 as stated: every length and coordinate an operation gives to the
\* application is one of the caller's millimetre values times 0.001, and
\* m_to_mm(mm_to_m(v)) is v.
C23_ConvertedAndRecovered ==
    /\ OperationReturned =>
          \A i \in DOMAIN sent["main"] :
              \A x \in MetresSent(sent["main"][i]) :
                  \E v \in MillimetresGiven(op["main"], args["main"]) : x = Thousandth(v)
    /\ Finished("main", "m_to_mm") => ret["main"] = args["main"].original

\* value * 0.001 as an expression, for a number the caller gave
TimesThousandth(value) == Product(Number(value), Given(MM_TO_M))

\* What the computed arguments of the call s of an operation given a are: the
\* rectangle's corners are the converted centre minus and plus half the
\* converted side, the polygon's vertex the converted centre plus the
\* converted radius times the cosine and sine of pi / 2.
ComputedFrom(s, a) ==
    LET cx == TimesThousandth(a.center_x)
        cy == TimesThousandth(a.center_y)
    IN IF s.call = "CreateCenterRectangle"
         THEN [Xp |-> Sum(cx, Half(TimesThousandth(a.width))),
               Yp |-> Sum(cy, Half(TimesThousandth(a.height)))]
       ELSE IF s.call = "CreateCornerRectangle"
         THEN [X1 |-> Difference(cx, Half(TimesThousandth(a.width))),
               Y1 |-> Difference(cy, Half(TimesThousandth(a.height))),
               X2 |-> Sum(cx, Half(TimesThousandth(a.width))),
               Y2 |-> Sum(cy, Half(TimesThousandth(a.height)))]
       ELSE IF s.call = "CreatePolygon"
         THEN [Xv |-> Sum(cx, Product(TimesThousandth(a.radius), Given(CosHalfPi))),
               Yv |-> Sum(cy, Product(TimesThousandth(a.radius), Given(SinHalfPi)))]
       ELSE IF s.call \in {"CreateSpline2", "CreateSpline"}
         THEN [PointData |->
                  Array([k \in 1..(3 * Len(a.points)) |->
                            IF k % 3 = 0 THEN Number(0)
                            ELSE TimesThousandth(a.points[(k + 2) \div 3][k % 3])])]
         ELSE <<>>

\* C23 amended: every length and coordinate of the caller that an operation
\* gives to the application as such is given as the caller's millimetre value
\* times 0.001; the corners of a rectangle, the vertex of a polygon and the
\* point array of a spline are computed from values converted in that way;
\* mm_to_m(v) is v times 0.001 and m_to_mm(mm_to_m(v)) differs from v by at
\* most |v| * 2^-52.
C23_ConvertedOnce ==
    /\ OperationReturned =>
          \A i \in DOMAIN sent["main"] :
              LET s == sent["main"][i]
                  a == args["main"]
                  computed == ComputedFrom(s, a)
              IN /\ \A f \in DOMAIN Converted[s.call] :
                        s.args[f] = Thousandth(a[Converted[s.call][f]])
                 /\ \A f \in DOMAIN computed : s.args[f] = Value(computed[f])
    /\ Finished("main", "mm_to_m") =>
          ret["main"] = Value(Product(Given(args["main"].value), Given(MM_TO_M)))
    /\ Finished("main", "m_to_mm") => Recovers(ret["main"], args["main"].original)

\* C23's case: a rectangle of 10 x 10 mm around (9, -5) was drawn with the
\* corner rectangle, whose first corner is none of the caller's values in
\* metres.
C23_Witness ==
    /\ Finished("main", "draw_rectangle")
    /\ args["main"].center_x = 9 /\ args["main"].width = 10
    /\ res["main"].success
    /\ \E i \in DOMAIN sent["main"] :
          /\ sent["main"][i].call = "CreateCornerRectangle"
          /\ sent["main"][i].args.X1 = Value(Difference(TimesThousandth(9), Half(TimesThousandth(10))))
          /\ \A v \in {9, -5, 10} : sent["main"][i].args.X1 # Thousandth(v)

\* ---------------------------------------------------------------------------
\* C25. get_model_state() called while no document is open, or while the
\* manager is not connected, returns a result whose success is false, whose
\* data is present and whose data["model_state"] is null; it makes no call
\* on a document.
C25_NoDocumentModelStateNull ==
    (Finished("main", "get_model_state") /\ (~IsConnected \/ ~doc_open))
        => /\ ~res["main"].success
           /\ res["main"].data # <<>>
           /\ res["main"].data[1].model_state = "None"
           /\ res["main"].message \in {NotConnected, NoDocument}
           /\ \A i \in DOMAIN trace["main"] : trace["main"][i].call = "ActiveDoc"

\* get_model_state() was called on a connected application that has no
\* document: the active document was read, and the result carries the null
\* model state.
C25_Witness ==
    /\ Finished("main", "get_model_state")
    /\ IsConnected /\ ~doc_open
    /\ HasOk("main", "ActiveDoc", 210, TRUE)
    /\ res["main"].message = NoDocument
    /\ res["main"].data = <<[model_state |-> "None"]>>

\* ---------------------------------------------------------------------------
\* The app property: raises RuntimeError when the flag is not set, and
\* returns the handle reference otherwise.
AppProperty == IF ~is_conn THEN "RuntimeError" ELSE app

\* C29. Between the calls of one caller that uses connect(), disconnect(),
\* reconnect(), check_connection(), get_version() and get_active_doc(),
\* whatever the application's calls did: a set connected flag implies a handle
\* that is not null, the is_connected property equals the flag, and the app
\* property raises or returns a handle that is not null.
C29_FlagImpliesHandle ==
    pc["main"] = "idle"
        => /\ is_conn => app = Handle
           /\ IsConnected = is_conn
           /\ AppProperty \in {"RuntimeError", Handle}

\* connect() returned False after a first adoption whose second read of the
\* version raised once the flag had been set: the handler cleared both the
\* handle and the flag.
C29_Witness ==
    /\ Finished("main", "connect")
    /\ ret["main"] = "False"
    /\ HasOk("main", "RevisionNumber", 87, FALSE)
    /\ ~is_conn /\ app = NoApp

\* ---------------------------------------------------------------------------
\* C30. connect() called while the is_connected property is true returns
\* True at once: it makes no call on the application, and leaves the handle
\* and the flag as they are, whatever has become of the application.
C30_AlreadyConnectedReturnsAtOnce ==
    [][/\ (pc["main"] = "idle" /\ pc'["main"] = "c_check" /\ op'["main"] = "connect"
              /\ IsConnected)
           => /\ app' = app /\ is_conn' = is_conn
              /\ trace'["main"] = <<>>
       /\ (pc["main"] = "c_check" /\ op["main"] = "connect" /\ IsConnected)
           => /\ pc'["main"] = "idle"
              /\ ret'["main"] = "True"
              /\ app' = app /\ is_conn' = is_conn
              /\ trace'["main"] = <<Ev("already", 55, TRUE)>>]_vars

\* connect() has returned True from its first test, having logged only that
\* it was connected already.
C30_Witness ==
    /\ Finished("main", "connect")
    /\ ret["main"] = "True"
    /\ trace["main"] = <<Ev("already", 55, TRUE)>>
    /\ IsConnected

\* ---------------------------------------------------------------------------
\* The resources, and the payload of a resource's mapping (<<>> when null).
Resources == {"model_state_resource", "screenshot_resource"}

ResourceReturned == pc["main"] = "idle" /\ op["main"] \in Resources

Payload ==
    IF op["main"] = "model_state_resource" THEN res["main"].model_state
    ELSE res["main"].viewport

\* The failure mapping: success false, a message, a null payload.
FailurePayload ==
    /\ ~res["main"].success
    /\ "message" \in DOMAIN res["main"]
    /\ Payload = <<>>

\* The mapping reports that the document has no active view.
NoActiveView ==
    /\ "message" \in DOMAIN res["main"]
    /\ res["main"].message = Msg("No active view available for screenshot.")

\* Every call the resource made on the application returned.
AllReturned == \A i \in DOMAIN trace["main"] : trace["main"][i].ok

\* C24 as stated. The two resources return a mapping and never raise; with no
\* document open or the manager disconnected the mapping is the failure
\* mapping; with a document open it has success true and a payload that is
\* not null.
C24_ResourcesSucceedWithDocument ==
    ResourceReturned
        => /\ ret["main"] = "dict"
           /\ (~IsConnected \/ ~doc_open) => FailurePayload
           /\ (IsConnected /\ doc_open)
                => res["main"].success /\ Payload # <<>>

\* C24, amended. The two resources return a mapping and never raise; with no
\* document open or the manager disconnected the mapping is the failure
\* mapping; with a document open it has success true and a payload that is
\* not null when no call on the application raised and (for the screenshot)
\* the document has an active view, and otherwise it is one of the two.
C24_ResourcesDegrade ==
    ResourceReturned
        => /\ ret["main"] = "dict"
           /\ (~IsConnected \/ ~doc_open) => FailurePayload
           /\ (IsConnected /\ doc_open /\ AllReturned /\ ~NoActiveView)
                => res["main"].success /\ Payload # <<>>
           /\ \/ res["main"].success /\ Payload # <<>>
              \/ FailurePayload

\* The model state resource was read on a connected manager whose application
\* has no document: it returned the failure mapping with the operation's
\* message.
C24_Witness ==
    /\ Finished("main", "model_state_resource")
    /\ IsConnected /\ ~doc_open
    /\ ret["main"] = "dict"
    /\ res["main"] = [success |-> FALSE, message |-> NoDocument, model_state |-> <<>>]

\* ---------------------------------------------------------------------------
\* The tools that attach a screenshot, and the calls of capture_screenshot()
\* that a tool has made.
ShotTools == DOMAIN ShotLine

Shots(t) ==
    {i \in DOMAIN t : /\ t[i].call = "capture_screenshot"
                      /\ t[i].line \in {ShotLine[tool] : tool \in ShotTools}}

\* C26. In create_new_part, close_sketch, extrude, fillet and chamfer,
\* capture_screenshot() is called only once the operation has returned
\* success true, and at most once; a response whose success is false has no
\* "screenshot" key; and the screenshot, whether it succeeds, fails or is
\* empty, changes neither the success flag nor the message of the response:
\* when it fails the response is left as it was.
C26_ScreenshotOnlyAfterSuccess ==
    [][/\ Cardinality(Shots(trace'["main"])) > Cardinality(Shots(trace["main"]))
           => /\ op["main"] \in ShotTools
              /\ pc["main"] = "t_shot"
              /\ res["main"].success
              /\ Shots(trace["main"]) = {}
              /\ Cardinality(Shots(trace'["main"])) = 1
              /\ \A key \in DOMAIN res["main"] :
                    key \in DOMAIN res'["main"] /\ res'["main"][key] = res["main"][key]
              /\ DOMAIN res'["main"] \subseteq DOMAIN res["main"] \cup {"screenshot"}
              /\ (\E i \in DOMAIN trace'["main"] : trace'["main"][i] = Ev("Frame", 1181, TRUE))
                    \/ res'["main"] = res["main"]
       /\ pc'["main"] = "t_shot"
           => op'["main"] \in ShotTools /\ res'["main"].success
       /\ (pc'["main"] = "idle" /\ op'["main"] \in ShotTools)
           => /\ Cardinality(Shots(trace'["main"])) <= 1
              /\ ~res'["main"].success
                   => /\ "screenshot" \notin DOMAIN res'["main"]
                      /\ Shots(trace'["main"]) = {}]_vars

\* The extrude tool has made a feature and then asked for the screenshot of a
\* document that has no active view: the response reports the feature and
\* the operation's success, without a screenshot.
C26_Witness ==
    /\ Finished("main", "extrude_tool")
    /\ Cardinality(Shots(trace["main"])) = 1
    /\ HasOk("main", "ActiveView", 1160, TRUE)
    /\ ~Has("main", "Frame", 1181)
    /\ res["main"].success
    /\ "feature" \in DOMAIN res["main"]
    /\ "screenshot" \notin DOMAIN res["main"]

\* ---------------------------------------------------------------------------
\* The plane names the tool accepts, compared after trimming and lower-casing,
\* and the reference plane of each.
FrontNames == {<<"f", "r", "o", "n", "t">>,
               <<"f", "r", "o", "n", "t", " ", "p", "l", "a", "n", "e">>}
TopNames == {<<"t", "o", "p">>, <<"t", "o", "p", " ", "p", "l", "a", "n", "e">>}
RightNames == {<<"r", "i", "g", "h", "t">>,
               <<"r", "i", "g", "h", "t", " ", "p", "l", "a", "n", "e">>}

\* The tool called the operations-layer function `o`.
Reached(o) == \E i \in DOMAIN trace["main"] : trace["main"][i].call = o

\* The tool returned a failure without a call of the operations layer or of
\* the application.
RejectedByTool ==
    /\ ret["main"] = "dict"
    /\ ~res["main"].success
    /\ "message" \in DOMAIN res["main"]
    /\ trace["main"] = <<>>
    /\ sent["main"] = <<>>

\* C27. create_sketch with an empty plane, or with a plane name that after
\* trimming and lower-casing is none of front, top, right, front plane, top
\* plane, right plane; save_part with an empty file_path; and the extrude tool
\* with an operation other than boss and cut or a direction other than
\* forward, backward and both: each returns success false without calling
\* the operations layer. Every other create_sketch reaches create_sketch()
\* with the reference plane its name stands for.
C27_ToolsValidateFirst ==
    /\ Finished("main", "create_sketch_tool")
         => LET name == Lower(Strip(args["main"].plane))
                plane == IF name \in FrontNames THEN "Front Plane"
                         ELSE IF name \in TopNames THEN "Top Plane"
                         ELSE "Right Plane"
            IN IF args["main"].plane = <<>>
                    \/ name \notin FrontNames \cup TopNames \cup RightNames
                 THEN RejectedByTool
                 ELSE /\ trace["main"] # <<>>
                      /\ trace["main"][1] = Ev("create_sketch", 100, TRUE)
                      /\ \A i \in DOMAIN sent["main"] :
                            /\ sent["main"][i].call = "SelectByID2"
                            /\ sent["main"][i].args.Name = plane
                      /\ (IsConnected /\ doc_open /\ trace["main"][Len(trace["main"])].ok)
                            => sent["main"] # <<>>
    /\ Finished("main", "save_part")
         => IF args["main"].file_path = <<>>
              THEN RejectedByTool
              ELSE Reached("save_document")
    /\ Finished("main", "extrude_tool")
         => IF \/ args["main"].operation \notin {"boss", "cut"}
               \/ args["main"].direction \notin {"forward", "backward", "both"}
              THEN RejectedByTool
              ELSE Reached("extrude")

\* The create_sketch tool was given " top plane " and has started a sketch
\* after selecting the plane named Top Plane.
C27_Witness ==
    /\ Finished("main", "create_sketch_tool")
    /\ args["main"].plane = <<" ", "t", "o", "p", " ", "p", "l", "a", "n", "e", " ">>
    /\ res["main"].success
    /\ sketch_active
    /\ \E i \in DOMAIN sent["main"] :
          sent["main"][i].call = "SelectByID2" /\ sent["main"][i].args.Name = "Top Plane"

\* ---------------------------------------------------------------------------
\* How often the marker `call` of `line` is on the record of the lifespan.
Count(call, line) ==
    Cardinality({i \in DOMAIN trace["main"] :
                    trace["main"][i].call = call /\ trace["main"][i].line = line})

\* connect() was entered (it logs that it is connected already, line 55, or
\* that it attempts to connect, line 58); disconnect() was entered (line 154).
ConnectsMade == Count("already", 55) + Count("connect", 58)
DisconnectsMade == Count("disconnect", 154)

BeforeYield == {"c_check", "adopt_dispatch", "adopt_probe", "adopt_set", "adopt_version",
                "adopt_except", "adopt_failed", "launch_dispatch", "launch_start",
                "loop_test", "loop_probe", "loop_visible", "loop_frame", "loop_set",
                "loop_sleep", "timed_out", "launch_except", "launch_failed",
                "ls_connected", "ls_warning", "ls_yield"}

\* C28. The lifespan of the server attempts connect() exactly once, before
\* anything else; it yields the context after connect() returned True and
\* after it returned False alike; and it calls disconnect() exactly once, after
\* the body has ended, whether the body raised or not and whether the startup
\* connect had succeeded or not. Nothing is disconnected before the body ends.
C28_LifespanConnectsAndDisconnectsOnce ==
    op["main"] = "lifespan"
        => /\ pc["main"] # "c_check" => ConnectsMade = 1
           /\ pc["main"] = "c_check" => trace["main"] = <<>>
           /\ pc["main"] \in BeforeYield \cup {"ls_body"} => DisconnectsMade = 0
           /\ pc["main"] \in BeforeYield => Count("yield", 65) = 0
           /\ pc["main"] \notin BeforeYield
                => /\ Count("yield", 65) = 1
                   /\ Count("info", 57) + Count("warning", 59) = 1
           /\ pc["main"] = "idle"
                => /\ DisconnectsMade = 1
                   /\ Count("body", 65) = 1
                   /\ \E i, j, k \in DOMAIN trace["main"] :
                         /\ i < j /\ j < k
                         /\ trace["main"][i] = Ev("yield", 65, TRUE)
                         /\ trace["main"][j].call = "body"
                         /\ trace["main"][k] = Ev("disconnect", 154, TRUE)
                   /\ ret["main"] = IF Pending(trace["main"]) THEN "raise" ELSE "None"
                   /\ ~is_conn /\ app = NoApp

\* The lifespan has ended after a startup connect() that returned False and a
\* body that raised: the warning was logged, the context was yielded, and
\* disconnect() was called once.
C28_Witness ==
    /\ Finished("main", "lifespan")
    /\ Count("warning", 59) = 1
    /\ Count("yield", 65) = 1
    /\ HasOk("main", "body", 65, FALSE)
    /\ DisconnectsMade = 1
    /\ ret["main"] = "raise"

====
